---- MODULE Spec2Model ----
(***************************************************************************)
(* Model of the barcode lookup API of cnc-webapp: the Express routes of    *)
(* barcode.routes.ts, the validators of barcode.validator.ts, the handlers *)
(* of BarcodeController and the two provider clients                       *)
(* (OpenFoodFactsService, UPCItemDBService).                               *)
(*                                                                         *)
(* Strings that the code inspects character by character (barcodes) are    *)
(* sequences of one-character strings.  JavaScript values whose type the   *)
(* code tests are records tagged with their typeof.  One step of the model *)
(* is one run-to-completion turn of the JavaScript event loop: the code    *)
(* between two awaits.                                                     *)
(***************************************************************************)
EXTENDS Integers, Sequences, FiniteSets, TLC

VARIABLES
  req,       \* the Express request: route, params.code, query.fields, body.codes
  pc,        \* position of the request in the middleware chain / handler
  response,  \* getItemByCode: the local `response` object
  tasks,     \* getBatchItems: one entry per closure of codes.map(async ...)
  inflight,  \* outstanding axios.get requests
  calls,     \* history: every invocation of a provider client, in order
  settled,   \* history: how each provider client invocation ended
  log,       \* console.log entries written by the controller
  nextErr,   \* the error handed to next(err), or NoError
  res,       \* the HTTP response sent, or NoRes
  client,    \* a provider client invoked on its own: its call and its result
  pagePc,          \* NewProductPage: position of the barcode lookup
  lookupResponse,  \* NewProductPage: the CombinedBarcodeResponse received
  productForm,     \* NewProductPage: the values of the product form
  signals,         \* NewProductPage: barcodeInput, isLookingUpBarcode,
                   \* barcodeError, barcodeSuccess
  sessions,        \* several getItemByCode requests served at the same time
  lookups,         \* NewProductPage: lookups in flight and scan timers pending
  authState,       \* the AuthState kept by authReducer
  effects,         \* AuthEffects: the HTTP requests of the session check
  mockUsers,       \* AuthController: the in-memory user store
  authReply        \* AuthController: the answer to the last call

\* the variables of the barcode API request
apiVars == <<req, pc, response, tasks, inflight, calls, settled, log, nextErr, res>>

\* the variables of the new-product page
pageVars == <<pagePc, lookupResponse, productForm, signals>>

\* the variables of the concurrent requests, of the overlapping page
\* lookups, of the auth store and of the mock auth controller
extraVars == <<sessions, lookups, authState, effects, mockUsers, authReply>>

\* the variables a step of the barcode API request leaves alone
otherVars == <<client, pageVars, extraVars>>

vars == <<apiVars, client, pageVars, extraVars>>

(***************************************************************************)
(* Bounds of the model                                                     *)
(***************************************************************************)
\* longest digit body of a generated barcode string (regex upper limit is 14)
MaxCodeLen == 15
\* longest run of whitespace put before / after a generated barcode
MaxPad == 1
\* longest batch whose handler is executed
MaxBatch == 2
\* short batches enumerated for the validator, besides those around the cap
MaxSmallBatch == 2
\* longest batch followed under fairness
MaxLiveBatch == 2
\* number of barcode requests served at the same time
MaxSessions == 2

(***************************************************************************)
(* Program constants                                                       *)
(***************************************************************************)
MinDigits == 8
MaxDigits == 14
MaxBatchItems == 100

(***************************************************************************)
(* JavaScript values                                                       *)
(***************************************************************************)
Undefined == [t |-> "undefined"]
Null == [t |-> "object", isNull |-> TRUE]
Str(s) == [t |-> "string", v |-> s]
Num(n) == [t |-> "number", v |-> n]
Arr(a) == [t |-> "array", v |-> a]

IsString(x) == x.t = "string"
IsArray(x) == x.t = "array"

\* JavaScript ToBoolean on the values above
Truthy(x) ==
  CASE x.t = "undefined" -> FALSE
    [] x.t = "object" -> ~x.isNull
    [] x.t = "string" -> Len(x.v) > 0
    [] x.t = "number" -> x.v # 0
    [] OTHER -> TRUE

(***************************************************************************)
(* Characters and String.prototype.trim                                    *)
(***************************************************************************)
DigitChars == {"0", "1", "2", "3", "4", "5", "6", "7", "8", "9"}
WhiteSpaceChars == {" ", "\t", "\n"}

IsDigit(c) == c \in DigitChars
IsWhiteSpace(c) == c \in WhiteSpaceChars

RECURSIVE TrimStart(_)
TrimStart(s) ==
  IF s = <<>> THEN s
  ELSE IF IsWhiteSpace(Head(s)) THEN TrimStart(Tail(s)) ELSE s

RECURSIVE TrimEnd(_)
TrimEnd(s) ==
  IF s = <<>> THEN s
  ELSE IF IsWhiteSpace(s[Len(s)]) THEN TrimEnd(SubSeq(s, 1, Len(s) - 1)) ELSE s

\* code.trim()
Trim(s) == TrimEnd(TrimStart(s))

\* a regex with the lower limit off by one: /^\d{7,14}$/
BarcodeRegexTestLoose(s) ==
  /\ Len(s) >= MinDigits - 1
  /\ Len(s) <= MaxDigits
  /\ \A i \in 1..Len(s) : IsDigit(s[i])

\* /^\d{8,14}$/.test(s)
BarcodeRegexTest(s) ==
  /\ Len(s) >= MinDigits
  /\ Len(s) <= MaxDigits
  /\ \A i \in 1..Len(s) : IsDigit(s[i])

(***************************************************************************)
(* Errors                                                                  *)
(***************************************************************************)
NoError == [name |-> "none", custom |-> FALSE, statusCode |-> 0,
            message |-> [text |-> "", arg |-> <<>>]]

Msg(text, arg) == [text |-> text, arg |-> arg]

\* new Error(message): not a CustomError, carries no statusCode
PlainError(text, arg) ==
  [name |-> "Error", custom |-> FALSE, statusCode |-> 0, message |-> Msg(text, arg)]

BadRequestError(text, arg) ==
  [name |-> "BadRequestError", custom |-> TRUE, statusCode |-> 400,
   message |-> Msg(text, arg)]

NotFoundError(text, arg) ==
  [name |-> "NotFoundError", custom |-> TRUE, statusCode |-> 404,
   message |-> Msg(text, arg)]

(***************************************************************************)
(* Validators (barcode.validator.ts).  Each returns the error it hands to  *)
(* next(), or NoError when it calls next() without argument.               *)
(***************************************************************************)
\* the check every single-barcode validator applies to req.params.code
CheckCodeParam(code) ==
  IF ~Truthy(code) \/ ~IsString(code) \/ Len(Trim(code.v)) = 0
  THEN BadRequestError("Valid barcode code is required", <<>>)
  ELSE IF ~BarcodeRegexTest(Trim(code.v))
       THEN BadRequestError(
              "Barcode must be a numeric string between 8 and 14 digits", <<>>)
       ELSE NoError

vGetItemByCode(r) == CheckCodeParam(r.params.code)
vGetFoodData(r) == CheckCodeParam(r.params.code)
vGetRetailData(r) == CheckCodeParam(r.params.code)

\* the body of the for-of loop over codes, for one element
CheckBatchElement(code) ==
  IF ~IsString(code) \/ Len(Trim(code.v)) = 0
  THEN BadRequestError("All codes must be non-empty strings", <<>>)
  ELSE IF ~BarcodeRegexTest(Trim(code.v))
       THEN BadRequestError("Invalid barcode format", code.v)
       ELSE NoError

\* for (const code of codes) { ... return next(err) ... }: the first error
RECURSIVE CheckBatchElements(_, _)
CheckBatchElements(codes, i) ==
  IF i > Len(codes) THEN NoError
  ELSE LET e == CheckBatchElement(codes[i])
       IN IF e # NoError THEN e ELSE CheckBatchElements(codes, i + 1)

\* the size check with >= in place of >
vGetBatchItemsStrictCap(r) ==
  LET codes == r.body.codes IN
  IF ~Truthy(codes) THEN BadRequestError("codes array is required", <<>>)
  ELSE IF ~IsArray(codes) THEN BadRequestError("codes must be an array", <<>>)
  ELSE IF Len(codes.v) = 0
       THEN BadRequestError("codes array must not be empty", <<>>)
  ELSE IF Len(codes.v) >= MaxBatchItems
       THEN BadRequestError(
              "codes array must not contain more than 100 items", <<>>)
  ELSE CheckBatchElements(codes.v, 1)

\* the element loop run from the last element to the first
vGetBatchItemsLastFirst(r) ==
  LET codes == r.body.codes IN
  IF ~Truthy(codes) THEN BadRequestError("codes array is required", <<>>)
  ELSE IF ~IsArray(codes) THEN BadRequestError("codes must be an array", <<>>)
  ELSE IF Len(codes.v) = 0
       THEN BadRequestError("codes array must not be empty", <<>>)
  ELSE IF Len(codes.v) > MaxBatchItems
       THEN BadRequestError(
              "codes array must not contain more than 100 items", <<>>)
  ELSE LET n == Len(codes.v) IN
       CheckBatchElements([i \in 1..n |-> codes.v[n + 1 - i]], 1)

vGetBatchItems(r) ==
  LET codes == r.body.codes IN
  IF ~Truthy(codes) THEN BadRequestError("codes array is required", <<>>)
  ELSE IF ~IsArray(codes) THEN BadRequestError("codes must be an array", <<>>)
  ELSE IF Len(codes.v) = 0
       THEN BadRequestError("codes array must not be empty", <<>>)
  ELSE IF Len(codes.v) > MaxBatchItems
       THEN BadRequestError(
              "codes array must not contain more than 100 items", <<>>)
  ELSE CheckBatchElements(codes.v, 1)

(***************************************************************************)
(* Provider data.  A product is a function from field names to opaque      *)
(* values; a field that is absent is not in its domain.                    *)
(***************************************************************************)
UNDEF == Undefined

\* a string value of a provider field, as one lexeme
V(x) == Str(<<x>>)

\* obj[k] of JavaScript: undefined when the property is absent
Get(obj, k) == IF k \in DOMAIN obj THEN obj[k] ELSE UNDEF

EmptyObj == [k \in {} |-> UNDEF]

\* the restriction of an object to some of its keys
Pick(obj, keys) == [k \in (DOMAIN obj) \cap keys |-> obj[k]]

\* JSON.stringify drops the properties whose value is undefined
Json(obj) == [k \in {x \in DOMAIN obj : obj[x] # UNDEF} |-> obj[k]]

Range(seq) == {seq[i] : i \in 1..Len(seq)}

\* products the OpenFoodFacts upstream may hold
FoodFull ==
  ("_keywords" :> V("kw")) @@ ("product_name" :> V("Nutella")) @@
  ("product_name_fr" :> V("Nutella FR")) @@ ("product_quantity" :> V("750")) @@
  ("product_quantity_unit" :> V("g")) @@ ("quantity" :> V("750 g")) @@
  ("serving_quantity" :> V("15")) @@ ("serving_quantity_unit" :> V("g")) @@
  ("brands" :> V("Ferrero"))
FoodSparse == ("product_name" :> V("Biscuit")) @@ ("brands" :> V("Lu"))
FoodProducts == {FoodFull, FoodSparse}

\* products the UPCItemDB upstream may hold
RetailFull ==
  ("ean" :> V("ean")) @@ ("title" :> V("Nutella 750g")) @@
  ("description" :> V("Hazelnut Spread")) @@ ("brand" :> V("Ferrero")) @@
  ("images" :> V("img"))
RetailSparse == ("ean" :> V("ean")) @@ ("title" :> V("Thing"))
RetailProducts == {RetailFull, RetailSparse}

(***************************************************************************)
(* What an axios.get can settle with.  kind "response" is a 2xx answer,    *)
(* kind "axiosError" a rejection that isAxiosError: http is the upstream   *)
(* status, 0 when there was no response at all (network failure, or the    *)
(* 10 second timeout).                                                     *)
(***************************************************************************)
HttpTimeout == 10000

\* GET /product/{barcode}: the upstream filters by params.fields or ignores it
FoodUpstream(params) ==
  {[kind |-> "response", http |-> 200, status |-> 1, hasProduct |-> TRUE,
    product |-> IF "fields" \in DOMAIN params /\ honors
                THEN Pick(p, Range(params.fields)) ELSE p,
    apiMessage |-> "", message |-> ""] :
      p \in FoodProducts, honors \in BOOLEAN}
  \cup
  {[kind |-> "response", http |-> 200, status |-> st, hasProduct |-> FALSE,
    product |-> EmptyObj, apiMessage |-> "", message |-> ""] : st \in {0, 1}}
  \cup
  {[kind |-> "response", http |-> 200, status |-> 0, hasProduct |-> TRUE,
    product |-> EmptyObj, apiMessage |-> "", message |-> ""]}
  \cup
  {[kind |-> "axiosError", http |-> h, status |-> 0, hasProduct |-> FALSE,
    product |-> EmptyObj, apiMessage |-> "",
    message |-> IF h = 0 THEN "timeout of 10000ms exceeded"
                ELSE "Request failed"] : h \in {0, 404, 500}}

\* GET /prod/trial/lookup?upc={barcode}
RetailUpstream ==
  {[kind |-> "response", http |-> 200, hasItems |-> TRUE, items |-> <<p>>,
    apiMessage |-> "", message |-> ""] : p \in RetailProducts}
  \cup
  {[kind |-> "response", http |-> 200, hasItems |-> hi, items |-> <<>>,
    apiMessage |-> "", message |-> ""] : hi \in BOOLEAN}
  \cup
  {[kind |-> "axiosError", http |-> h, hasItems |-> FALSE, items |-> <<>>,
    apiMessage |-> am,
    message |-> IF h = 0 THEN "timeout of 10000ms exceeded"
                ELSE "Request failed"] :
      h \in {0, 404, 429, 500}, am \in {"", "upstream says no"}}

(***************************************************************************)
(* Provider clients.  Each is the part of the client that runs once its    *)
(* single axios.get has settled with `up`; the result is what the promise  *)
(* returned by the client settles with.                                    *)
(***************************************************************************)
Resolved(v) == [ok |-> TRUE, value |-> v, error |-> NoError]
Rejected(e) == [ok |-> FALSE, value |-> EmptyObj, error |-> e]

\* options.fields && options.fields.length > 0
HasFields(options) == "fields" \in DOMAIN options /\ Len(options.fields) > 0

\* OpenFoodFactsService.getProductByBarcode: the params of its axios.get
getProductByBarcode_Params(options) ==
  IF HasFields(options) THEN [fields |-> options.fields] ELSE EmptyObj

\* OpenFoodFactsService.getProductByBarcode
getProductByBarcode(barcode, options, up) ==
  IF up.kind = "response"
  THEN IF up.status = 0 \/ ~up.hasProduct
       THEN Rejected(PlainError("Product not found in OpenFoodFacts", barcode.v))
       ELSE Resolved(up.product @@ ("barcode" :> barcode))
  ELSE IF up.http = 404
       THEN Rejected(PlainError("Product not found in OpenFoodFacts", barcode.v))
       ELSE Rejected(PlainError("OpenFoodFacts API error", <<up.message>>))

\* lookup without its field filter: the whole product is returned
lookupUnfiltered(barcode, options, up) ==
  IF up.kind = "response"
  THEN IF ~up.hasItems \/ Len(up.items) = 0
       THEN Rejected(PlainError("Product not found in UPCItemDB", barcode.v))
       ELSE Resolved(up.items[1] @@ ("barcode" :> barcode))
  ELSE IF up.http = 429
       THEN Rejected(PlainError(
              "UPCItemDB API rate limit exceeded. Please try again later.", <<>>))
  ELSE IF up.http = 404
       THEN Rejected(PlainError("Product not found in UPCItemDB", barcode.v))
  ELSE IF up.apiMessage # ""
       THEN Rejected(PlainError("UPCItemDB API error", <<up.apiMessage>>))
  ELSE Rejected(PlainError("UPCItemDB API error", <<up.message>>))

\* lookup without its test of status 429: rate limiting ends as an API error
lookupNoRateLimit(barcode, options, up) ==
  IF up.kind = "response"
  THEN IF ~up.hasItems \/ Len(up.items) = 0
       THEN Rejected(PlainError("Product not found in UPCItemDB", barcode.v))
       ELSE LET product == up.items[1] IN
            IF HasFields(options)
            THEN Resolved(Json(Pick(product, Range(options.fields)))
                          @@ ("barcode" :> barcode))
            ELSE Resolved(product @@ ("barcode" :> barcode))
  ELSE IF up.http = 404
       THEN Rejected(PlainError("Product not found in UPCItemDB", barcode.v))
  ELSE IF up.apiMessage # ""
       THEN Rejected(PlainError("UPCItemDB API error", <<up.apiMessage>>))
  ELSE Rejected(PlainError("UPCItemDB API error", <<up.message>>))

\* UPCItemDBService.lookup
lookup(barcode, options, up) ==
  IF up.kind = "response"
  THEN IF ~up.hasItems \/ Len(up.items) = 0
       THEN Rejected(PlainError("Product not found in UPCItemDB", barcode.v))
       ELSE LET product == up.items[1] IN
            IF HasFields(options)
            THEN Resolved(Json(Pick(product, Range(options.fields)))
                          @@ ("barcode" :> barcode))
            ELSE Resolved(product @@ ("barcode" :> barcode))
  ELSE IF up.http = 429
       THEN Rejected(PlainError(
              "UPCItemDB API rate limit exceeded. Please try again later.", <<>>))
  ELSE IF up.http = 404
       THEN Rejected(PlainError("Product not found in UPCItemDB", barcode.v))
  ELSE IF up.apiMessage # ""
       THEN Rejected(PlainError("UPCItemDB API error", <<up.apiMessage>>))
  ELSE Rejected(PlainError("UPCItemDB API error", <<up.message>>))

(***************************************************************************)
(* Requests                                                                *)
(***************************************************************************)
Routes == {"item", "batch", "food", "retail"}

Request(route, code, fields, codes) ==
  [route |-> route, params |-> [code |-> code], query |-> [fields |-> fields],
   body |-> [codes |-> codes]]

DigitSeq == <<"0", "1", "2", "3", "4", "5", "6", "7", "8", "9">>
Digits(n) == [i \in 1..n |-> DigitSeq[(i % 10) + 1]]

\* runs of one whitespace character
Pads(maxPad) == {[i \in 1..k |-> c] : k \in 0..maxPad, c \in {" ", "\t"}}

\* digit strings, and digit strings with one character replaced
Bodies(maxLen) ==
  {Digits(n) : n \in 0..maxLen}
  \cup UNION {{[Digits(n) EXCEPT ![p] = c] : p \in 1..n, c \in {"a", " ", "-"}} :
               n \in 1..maxLen}

RawCodes(maxLen, maxPad) ==
  {l \o b \o t : l \in Pads(maxPad), b \in Bodies(maxLen), t \in Pads(maxPad)}

GoodCode1 == <<"3", "0", "1", "7", "6", "2", "0", "4", "2", "2", "0", "0", "3">>
GoodCode2 == Digits(MinDigits)
PaddedCode == <<" ">> \o Digits(MaxDigits) \o <<"\t">>
BadCodes == {<<"a", "b", "c", "1", "2", "3">>, Digits(MinDigits - 1),
             Digits(MaxDigits + 1), <<" ">>}

\* the codes of the requests whose handlers are executed
HandlerCodes == {GoodCode1, GoodCode2, PaddedCode} \cup BadCodes

\* sequences over S of length 0..n
SeqsUpTo(S, n) == UNION {[1..k -> S] : k \in 0..n}

\* the body.codes of the batch requests whose handlers are executed
HandlerBatches ==
  {Undefined, Str(GoodCode1)}
  \cup {Arr(a) : a \in SeqsUpTo({Str(GoodCode1), Str(GoodCode2),
                                 Str(<<"a", "b", "c", "1", "2", "3">>), Num(5)},
                                MaxBatch)}

\* query.fields: a string is a sequence of lexemes (a field name, "," or " ")
FieldsQueries ==
  {Undefined, Str(<<>>),
   Str(<<"product_name", ",", " ", "quantity">>),
   Str(<<"brand", ",", "images", ",", "nosuchfield">>),
   Arr(<<Str(<<" ", "brand">>), Str(<<"title">>)>>)}

HandlerRequests ==
  {Request(r, Str(c), f, Undefined) :
     r \in {"food", "retail"}, c \in HandlerCodes, f \in FieldsQueries}
  \cup {Request("item", Str(c), Undefined, Undefined) : c \in HandlerCodes}
  \cup {Request("batch", Undefined, Undefined, b) : b \in HandlerBatches}

NoRes == [status |-> 0, body |-> EmptyObj]
Sent == res.status # 0

\* no barcode API request is being served
ApiUnused ==
  /\ req = Request("none", Undefined, Undefined, Undefined)
  /\ pc = "unused"
  /\ response = EmptyObj
  /\ tasks = <<>>
  /\ inflight = {}
  /\ calls = <<>>
  /\ settled = {}
  /\ log = <<>>
  /\ nextErr = NoError
  /\ res = NoRes

\* no provider client is invoked on its own
ClientUnused == client = [pc |-> "unused"]

\* the new-product page is not open
PageUnused ==
  /\ pagePc = "unused"
  /\ lookupResponse = EmptyObj
  /\ productForm = EmptyObj
  /\ signals = EmptyObj

\* no concurrent requests are served
SessionsUnused == sessions = <<>>

\* the page has no overlapping lookups
LookupsUnused == lookups = <<>>

\* the auth store is not running
AuthUnused == authState = EmptyObj /\ effects = EmptyObj

\* the mock auth controller is not called
MockUnused == mockUsers = <<>> /\ authReply = NoRes

ExtraUnused == SessionsUnused /\ LookupsUnused /\ AuthUnused /\ MockUnused

Init ==
  /\ req \in HandlerRequests
  /\ pc = "requireAuth"
  /\ response = EmptyObj
  /\ tasks = <<>>
  /\ inflight = {}
  /\ calls = <<>>
  /\ settled = {}
  /\ log = <<>>
  /\ nextErr = NoError
  /\ res = NoRes
  /\ ClientUnused
  /\ PageUnused
  /\ ExtraUnused

(***************************************************************************)
(* Middleware chain of every barcode route (barcode.routes.ts)             *)
(***************************************************************************)
RequireAuth ==
  /\ pc = "requireAuth"
  /\ pc' = "requireRole"
  /\ UNCHANGED <<req, response, tasks, inflight, calls, settled, log, nextErr, res>>
  /\ UNCHANGED otherVars

RequireEmployeeOrAdmin ==
  /\ pc = "requireRole"
  /\ pc' = "validate"
  /\ UNCHANGED <<req, response, tasks, inflight, calls, settled, log, nextErr, res>>
  /\ UNCHANGED otherVars

\* a validator that reports its error and lets the request through all the same
ValidateFallThrough(route, e) ==
  /\ pc = "validate"
  /\ req.route = route
  /\ nextErr' = e
  /\ pc' = "handler"
  /\ UNCHANGED <<req, response, tasks, inflight, calls, settled, log, res>>
  /\ UNCHANGED otherVars

\* next(err) skips the handler and goes to the error handler; next() goes on
Validate(route, e) ==
  /\ pc = "validate"
  /\ req.route = route
  /\ nextErr' = e
  /\ pc' = IF e # NoError THEN "errorHandler" ELSE "handler"
  /\ UNCHANGED <<req, response, tasks, inflight, calls, settled, log, res>>
  /\ UNCHANGED otherVars

VGetItemByCode == Validate("item", vGetItemByCode(req))
VGetBatchItems == Validate("batch", vGetBatchItems(req))
VGetFoodData == Validate("food", vGetFoodData(req))
VGetRetailData == Validate("retail", vGetRetailData(req))

\* the error handler of server/app.ts
ErrorHandler ==
  /\ pc = "errorHandler"
  /\ \E development \in BOOLEAN :
       res' = IF nextErr.custom
              THEN [status |-> nextErr.statusCode,
                    body |-> [error |-> nextErr.name, message |-> nextErr.message]]
              ELSE [status |-> 500,
                    body |-> [error |-> "Internal Server Error",
                              message |-> IF development THEN nextErr.message
                                          ELSE Msg("An error occurred", <<>>)]]
  /\ pc' = "done"
  /\ UNCHANGED <<req, response, tasks, inflight, calls, settled, log, nextErr>>
  /\ UNCHANGED otherVars

(***************************************************************************)
(* BarcodeController.getItemByCode                                         *)
(***************************************************************************)
Call(idx, provider, barcode, options) ==
  [idx |-> idx, provider |-> provider, barcode |-> barcode, options |-> options]
Flight(idx, provider) == [idx |-> idx, provider |-> provider]
Outcome(idx, provider, ok) == [idx |-> idx, provider |-> provider, ok |-> ok]

\* const response: CombinedItemResponse = { barcode: code, sources: {...} }
NewResponse(code) ==
  [barcode |-> code, sources |-> [openFoodFacts |-> FALSE, upcItemDB |-> FALSE]]

\* the fields getItemByCode asks OpenFoodFacts for
ItemFoodFields ==
  <<"_keywords", "product_name_fr", "product_quantity", "product_quantity_unit",
    "quantity", "serving_quantity", "serving_quantity_unit">>

\* the fields getItemByCode asks UPCItemDB for
ItemRetailFields == <<"description", "brand", "images">>

\* foodData stored without raising the openFoodFacts flag
ItemWithFoodNoFlag(resp, foodData) ==
  ("foodData" :>
     [keywords |-> Get(foodData, "_keywords"),
      product_name |-> Get(foodData, "product_name"),
      product_quantity |-> Get(foodData, "product_quantity"),
      product_quantity_unit |-> Get(foodData, "product_quantity_unit"),
      quantity |-> Get(foodData, "quantity"),
      serving_quantity |-> Get(foodData, "serving_quantity"),
      serving_quantity_unit |-> Get(foodData, "serving_quantity_unit")])
  @@ resp

\* response.foodData = {...}; response.sources.openFoodFacts = true
ItemWithFood(resp, foodData) ==
  ("foodData" :>
     [keywords |-> Get(foodData, "_keywords"),
      product_name |-> Get(foodData, "product_name"),
      product_quantity |-> Get(foodData, "product_quantity"),
      product_quantity_unit |-> Get(foodData, "product_quantity_unit"),
      quantity |-> Get(foodData, "quantity"),
      serving_quantity |-> Get(foodData, "serving_quantity"),
      serving_quantity_unit |-> Get(foodData, "serving_quantity_unit")])
  @@ [resp EXCEPT !["sources"] = [@ EXCEPT !.openFoodFacts = TRUE]]

\* response.retailData = {...}; response.sources.upcItemDB = true
ItemWithRetail(resp, retailData) ==
  ("retailData" :>
     [description |-> Get(retailData, "description"),
      brand |-> Get(retailData, "brand"),
      images |-> Get(retailData, "images")])
  @@ [resp EXCEPT !["sources"] = [@ EXCEPT !.upcItemDB = TRUE]]

\* res.json(response): properties whose value is undefined are not serialised
JsonResponse(resp) ==
  [k \in DOMAIN resp |->
     IF k \in {"foodData", "retailData"} THEN Json(resp[k]) ELSE resp[k]]

\* both provider calls started at once, as Promise.allSettled would
GetItemByCode_StartConcurrent ==
  /\ pc = "handler"
  /\ req.route = "item"
  /\ LET code == req.params.code IN
     IF ~Truthy(code)
     THEN /\ nextErr' = BadRequestError("Barcode code is required", <<>>)
          /\ pc' = "errorHandler"
          /\ UNCHANGED <<response, calls, inflight>>
     ELSE /\ response' = NewResponse(code)
          /\ calls' = calls \o
               <<Call(1, "openFoodFacts", code.v, [fields |-> ItemFoodFields]),
                 Call(1, "upcItemDB", code.v, [fields |-> ItemRetailFields])>>
          /\ inflight' = inflight \cup
               {Flight(1, "openFoodFacts"), Flight(1, "upcItemDB")}
          /\ pc' = "awaitFood"
          /\ UNCHANGED nextErr
  /\ UNCHANGED <<req, tasks, settled, log, res>>
  /\ UNCHANGED otherVars

\* from the entry of the handler to the first await: the axios.get of
\* OpenFoodFactsService.getProductByBarcode is sent
GetItemByCode_Start ==
  /\ pc = "handler"
  /\ req.route = "item"
  /\ LET code == req.params.code IN
     IF ~Truthy(code)
     THEN /\ nextErr' = BadRequestError("Barcode code is required", <<>>)
          /\ pc' = "errorHandler"
          /\ UNCHANGED <<response, calls, inflight>>
     ELSE /\ response' = NewResponse(code)
          /\ calls' = Append(calls, Call(1, "openFoodFacts", code.v,
                                         [fields |-> ItemFoodFields]))
          /\ inflight' = inflight \cup {Flight(1, "openFoodFacts")}
          /\ pc' = "awaitFood"
          /\ UNCHANGED nextErr
  /\ UNCHANGED <<req, tasks, settled, log, res>>
  /\ UNCHANGED otherVars

\* a single try block around both calls: a failure of OpenFoodFacts
\* ends the request without calling UPCItemDB
GetItemByCode_FoodSettledShortCircuit ==
  /\ pc = "awaitFood"
  /\ req.route = "item"
  /\ Flight(1, "openFoodFacts") \in inflight
  /\ LET code == req.params.code
         options == [fields |-> ItemFoodFields]
     IN \E up \in FoodUpstream(getProductByBarcode_Params(options)) :
          LET r == getProductByBarcode(code, options, up) IN
          /\ settled' = settled \cup {Outcome(1, "openFoodFacts", r.ok)}
          /\ IF r.ok
             THEN /\ response' = ItemWithFood(response, r.value)
                  /\ calls' = Append(calls, Call(1, "upcItemDB", code.v,
                                                 [fields |-> ItemRetailFields]))
                  /\ inflight' = (inflight \ {Flight(1, "openFoodFacts")})
                                   \cup {Flight(1, "upcItemDB")}
                  /\ pc' = "awaitRetail"
                  /\ UNCHANGED <<log, nextErr>>
             ELSE /\ nextErr' = r.error
                  /\ inflight' = inflight \ {Flight(1, "openFoodFacts")}
                  /\ pc' = "errorHandler"
                  /\ UNCHANGED <<response, calls, log>>
  /\ UNCHANGED <<req, tasks, res>>
  /\ UNCHANGED otherVars

\* the OpenFoodFacts request settles: the client returns or throws, the
\* controller stores foodData or logs, and calls UPCItemDBService.lookup
GetItemByCode_FoodSettled ==
  /\ pc = "awaitFood"
  /\ req.route = "item"
  /\ Flight(1, "openFoodFacts") \in inflight
  /\ LET code == req.params.code
         options == [fields |-> ItemFoodFields]
     IN \E up \in FoodUpstream(getProductByBarcode_Params(options)) :
          LET r == getProductByBarcode(code, options, up) IN
          /\ settled' = settled \cup {Outcome(1, "openFoodFacts", r.ok)}
          /\ IF r.ok
             THEN /\ response' = ItemWithFood(response, r.value)
                  /\ UNCHANGED log
             ELSE /\ log' = Append(log,
                       [text |-> "OpenFoodFacts data not available for",
                        code |-> code.v, message |-> r.error.message])
                  /\ UNCHANGED response
          /\ calls' = Append(calls, Call(1, "upcItemDB", code.v,
                                         [fields |-> ItemRetailFields]))
          /\ inflight' = (inflight \ {Flight(1, "openFoodFacts")})
                           \cup {Flight(1, "upcItemDB")}
  /\ pc' = "awaitRetail"
  /\ UNCHANGED <<req, tasks, nextErr, res>>
  /\ UNCHANGED otherVars

\* the final test of getItemByCode with || in place of &&: NotFound as soon
\* as one source is missing
ItemNotFoundEither(resp) ==
  ~resp.sources.openFoodFacts \/ ~resp.sources.upcItemDB

\* the final test with one negation lost: NotFound only when UPCItemDB alone
\* answered
ItemNotFoundTypo(resp) ==
  ~resp.sources.openFoodFacts /\ resp.sources.upcItemDB

\* !response.sources.openFoodFacts && !response.sources.upcItemDB
ItemNotFound(resp) ==
  ~resp.sources.openFoodFacts /\ ~resp.sources.upcItemDB

\* the UPCItemDB request settles: the client returns or throws, the
\* controller stores retailData or logs, then answers 200 or next(NotFound)
\* next(new NotFoundError(...)) without its return: the 200 is sent as well
GetItemByCode_RetailSettledNoReturn ==
  /\ pc = "awaitRetail"
  /\ req.route = "item"
  /\ Flight(1, "upcItemDB") \in inflight
  /\ LET code == req.params.code
         options == [fields |-> ItemRetailFields]
     IN \E up \in RetailUpstream :
          LET r == lookup(code, options, up)
              resp == IF r.ok THEN ItemWithRetail(response, r.value) ELSE response
          IN
          /\ settled' = settled \cup {Outcome(1, "upcItemDB", r.ok)}
          /\ response' = resp
          /\ log' = IF r.ok THEN log
                    ELSE Append(log,
                           [text |-> "UPCItemDB data not available for",
                            code |-> code.v, message |-> r.error.message])
          /\ inflight' = inflight \ {Flight(1, "upcItemDB")}
          /\ res' = [status |-> 200, body |-> JsonResponse(resp)]
          /\ IF ItemNotFound(resp)
             THEN /\ nextErr' = NotFoundError(
                                  "Item with barcode not found in any source", code.v)
                  /\ pc' = "errorHandler"
             ELSE /\ pc' = "done"
                  /\ UNCHANGED nextErr
  /\ UNCHANGED <<req, tasks, calls>>
  /\ UNCHANGED otherVars

GetItemByCode_RetailSettled ==
  /\ pc = "awaitRetail"
  /\ req.route = "item"
  /\ Flight(1, "upcItemDB") \in inflight
  /\ LET code == req.params.code
         options == [fields |-> ItemRetailFields]
     IN \E up \in RetailUpstream :
          LET r == lookup(code, options, up)
              resp == IF r.ok THEN ItemWithRetail(response, r.value) ELSE response
          IN
          /\ settled' = settled \cup {Outcome(1, "upcItemDB", r.ok)}
          /\ response' = resp
          /\ log' = IF r.ok THEN log
                    ELSE Append(log,
                           [text |-> "UPCItemDB data not available for",
                            code |-> code.v, message |-> r.error.message])
          /\ inflight' = inflight \ {Flight(1, "upcItemDB")}
          /\ IF ItemNotFound(resp)
             THEN /\ nextErr' = NotFoundError(
                                  "Item with barcode not found in any source", code.v)
                  /\ pc' = "errorHandler"
                  /\ UNCHANGED res
             ELSE /\ res' = [status |-> 200, body |-> JsonResponse(resp)]
                  /\ pc' = "done"
                  /\ UNCHANGED nextErr
  /\ UNCHANGED <<req, tasks, calls>>
  /\ UNCHANGED otherVars

(***************************************************************************)
(* BarcodeController.getBatchItems                                         *)
(***************************************************************************)
\* the fields the batch closure asks OpenFoodFacts for
BatchFoodFields ==
  <<"_keywords", "product_name_fr", "product_quantity", "product_quantity_unit",
    "quantity", "serving_quantity", "serving_quantity_unit">>

\* the fields the batch closure asks UPCItemDB for
BatchRetailFields == <<"description", "brand", "images">>

\* the batch closure copying product_name_fr where getItemByCode copies
\* product_name
BatchWithFoodFrName(resp, foodData) ==
  ("foodData" :>
     [keywords |-> Get(foodData, "_keywords"),
      product_name |-> Get(foodData, "product_name_fr"),
      product_quantity |-> Get(foodData, "product_quantity"),
      product_quantity_unit |-> Get(foodData, "product_quantity_unit"),
      quantity |-> Get(foodData, "quantity"),
      serving_quantity |-> Get(foodData, "serving_quantity"),
      serving_quantity_unit |-> Get(foodData, "serving_quantity_unit")])
  @@ [resp EXCEPT !["sources"] = [@ EXCEPT !.openFoodFacts = TRUE]]

\* response.foodData = {...}; response.sources.openFoodFacts = true
BatchWithFood(resp, foodData) ==
  ("foodData" :>
     [keywords |-> Get(foodData, "_keywords"),
      product_name |-> Get(foodData, "product_name"),
      product_quantity |-> Get(foodData, "product_quantity"),
      product_quantity_unit |-> Get(foodData, "product_quantity_unit"),
      quantity |-> Get(foodData, "quantity"),
      serving_quantity |-> Get(foodData, "serving_quantity"),
      serving_quantity_unit |-> Get(foodData, "serving_quantity_unit")])
  @@ [resp EXCEPT !["sources"] = [@ EXCEPT !.openFoodFacts = TRUE]]

\* response.retailData = {...}; response.sources.upcItemDB = true
BatchWithRetail(resp, retailData) ==
  ("retailData" :>
     [description |-> Get(retailData, "description"),
      brand |-> Get(retailData, "brand"),
      images |-> Get(retailData, "images")])
  @@ [resp EXCEPT !["sources"] = [@ EXCEPT !.upcItemDB = TRUE]]

\* the closure's last test with the null branch lost: every response is kept
BatchKeepAll(resp) == TRUE

\* response.sources.openFoodFacts || response.sources.upcItemDB
BatchKeep(resp) == resp.sources.openFoodFacts \/ resp.sources.upcItemDB

\* from the entry of the handler to its await of Promise.all: codes.map runs
\* every closure up to its first await, so every OpenFoodFacts request is sent
\* the closures run one after the other: only the first one is started
GetBatchItems_StartSequential ==
  /\ pc = "handler"
  /\ req.route = "batch"
  /\ LET codes == req.body.codes IN
     IF ~IsArray(codes) \/ Len(codes.v) = 0
     THEN /\ nextErr' = BadRequestError(
                          "codes array is required and must not be empty", <<>>)
          /\ pc' = "errorHandler"
          /\ UNCHANGED <<tasks, calls, inflight>>
     ELSE /\ tasks' = [i \in 1..Len(codes.v) |->
                         [pc |-> "awaitFood", code |-> codes.v[i],
                          response |-> NewResponse(codes.v[i]),
                          retNull |-> FALSE]]
          /\ calls' = Append(calls, Call(1, "openFoodFacts", codes.v[1].v,
                                         [fields |-> BatchFoodFields]))
          /\ inflight' = inflight \cup {Flight(1, "openFoodFacts")}
          /\ pc' = "awaitAll"
          /\ UNCHANGED nextErr
  /\ UNCHANGED <<req, response, settled, log, res>>
  /\ UNCHANGED otherVars

GetBatchItems_Start ==
  /\ pc = "handler"
  /\ req.route = "batch"
  /\ LET codes == req.body.codes IN
     IF ~IsArray(codes) \/ Len(codes.v) = 0
     THEN /\ nextErr' = BadRequestError(
                          "codes array is required and must not be empty", <<>>)
          /\ pc' = "errorHandler"
          /\ UNCHANGED <<tasks, calls, inflight>>
     ELSE /\ tasks' = [i \in 1..Len(codes.v) |->
                         [pc |-> "awaitFood", code |-> codes.v[i],
                          response |-> NewResponse(codes.v[i]),
                          retNull |-> FALSE]]
          /\ calls' = calls \o
               [i \in 1..Len(codes.v) |->
                  Call(i, "openFoodFacts", codes.v[i].v,
                       [fields |-> BatchFoodFields])]
          /\ inflight' = inflight \cup
               {Flight(i, "openFoodFacts") : i \in 1..Len(codes.v)}
          /\ pc' = "awaitAll"
          /\ UNCHANGED nextErr
  /\ UNCHANGED <<req, response, settled, log, res>>
  /\ UNCHANGED otherVars

\* closure i: its OpenFoodFacts request settles; foodData is stored or the
\* error is dropped; UPCItemDBService.lookup is called
GetBatchItems_FoodSettled(i) ==
  /\ pc = "awaitAll"
  /\ tasks[i].pc = "awaitFood"
  /\ Flight(i, "openFoodFacts") \in inflight
  /\ LET code == tasks[i].code
         options == [fields |-> BatchFoodFields]
     IN \E up \in FoodUpstream(getProductByBarcode_Params(options)) :
          LET r == getProductByBarcode(code, options, up) IN
          /\ settled' = settled \cup {Outcome(i, "openFoodFacts", r.ok)}
          /\ tasks' = [tasks EXCEPT ![i] =
               [@ EXCEPT !.pc = "awaitRetail",
                         !.response = IF r.ok
                                      THEN BatchWithFood(tasks[i].response, r.value)
                                      ELSE @]]
          /\ calls' = Append(calls, Call(i, "upcItemDB", code.v,
                                         [fields |-> BatchRetailFields]))
          /\ inflight' = (inflight \ {Flight(i, "openFoodFacts")})
                           \cup {Flight(i, "upcItemDB")}
  /\ UNCHANGED <<req, pc, response, log, nextErr, res>>
  /\ UNCHANGED otherVars

\* closure i: its UPCItemDB request settles; retailData is stored or the
\* error is dropped; the closure returns its response or null
GetBatchItems_RetailSettled(i) ==
  /\ pc = "awaitAll"
  /\ tasks[i].pc = "awaitRetail"
  /\ Flight(i, "upcItemDB") \in inflight
  /\ LET code == tasks[i].code
         options == [fields |-> BatchRetailFields]
     IN \E up \in RetailUpstream :
          LET r == lookup(code, options, up)
              resp == IF r.ok THEN BatchWithRetail(tasks[i].response, r.value)
                      ELSE tasks[i].response
          IN
          /\ settled' = settled \cup {Outcome(i, "upcItemDB", r.ok)}
          /\ tasks' = [tasks EXCEPT ![i] =
               [@ EXCEPT !.pc = "returned", !.response = resp,
                         !.retNull = ~BatchKeep(resp)]]
          /\ inflight' = inflight \ {Flight(i, "upcItemDB")}
  /\ UNCHANGED <<req, pc, response, calls, log, nextErr, res>>
  /\ UNCHANGED otherVars

\* the kept responses collected last closure first
ValidResultsLastFirst(ts) ==
  LET kept == SelectSeq(ts, LAMBDA t : ~t.retNull)
  IN [j \in 1..Len(kept) |-> JsonResponse(kept[Len(kept) + 1 - j].response)]

\* results.filter(item => item !== null), as the sequence of kept responses
ValidResults(ts) ==
  LET kept == SelectSeq(ts, LAMBDA t : ~t.retNull)
  IN [j \in 1..Len(kept) |-> JsonResponse(kept[j].response)]

\* a body whose total counts every closure, kept or not
BatchBodyTotalAll(ts, codes) ==
  [items |-> ValidResults(ts), total |-> Len(ts), requested |-> Len(codes)]

\* { items: validResults, total: validResults.length, requested: codes.length }
BatchBody(ts, codes) ==
  [items |-> ValidResults(ts), total |-> Len(ValidResults(ts)),
   requested |-> Len(codes)]

\* Promise.all resolves once every closure has returned: filter and answer
\* the join waiting for closures that returned a response only: a closure
\* that returned null is waited for without end
GetBatchItems_JoinKeptOnly ==
  /\ pc = "awaitAll"
  /\ \A i \in 1..Len(tasks) : tasks[i].pc = "returned" /\ ~tasks[i].retNull
  /\ res' = [status |-> 200, body |-> BatchBody(tasks, req.body.codes.v)]
  /\ pc' = "done"
  /\ UNCHANGED <<req, response, tasks, inflight, calls, settled, log, nextErr>>
  /\ UNCHANGED otherVars

\* the join answering NotFound when no closure kept its response
GetBatchItems_JoinNotFoundWhenEmpty ==
  /\ pc = "awaitAll"
  /\ \A i \in 1..Len(tasks) : tasks[i].pc = "returned"
  /\ IF ValidResults(tasks) = <<>>
     THEN /\ nextErr' = NotFoundError("No item found in any source", <<>>)
          /\ pc' = "errorHandler"
          /\ UNCHANGED res
     ELSE /\ res' = [status |-> 200, body |-> BatchBody(tasks, req.body.codes.v)]
          /\ pc' = "done"
          /\ UNCHANGED nextErr
  /\ UNCHANGED <<req, response, tasks, inflight, calls, settled, log>>
  /\ UNCHANGED otherVars

GetBatchItems_Join ==
  /\ pc = "awaitAll"
  /\ \A i \in 1..Len(tasks) : tasks[i].pc = "returned"
  /\ res' = [status |-> 200, body |-> BatchBody(tasks, req.body.codes.v)]
  /\ pc' = "done"
  /\ UNCHANGED <<req, response, tasks, inflight, calls, settled, log, nextErr>>
  /\ UNCHANGED otherVars

(***************************************************************************)
(* BarcodeController.getFoodData / getRetailData                           *)
(***************************************************************************)
\* fields.split(','): the pieces between the "," lexemes
RECURSIVE SplitComma(_, _)
SplitComma(s, piece) ==
  IF s = <<>> THEN <<piece>>
  ELSE IF Head(s) = "," THEN <<piece>> \o SplitComma(Tail(s), <<>>)
  ELSE SplitComma(Tail(s), Append(piece, Head(s)))

\* the string a trimmed piece spells: the generated pieces hold at most one name
NameOf(piece) == IF Trim(piece) = <<>> THEN "" ELSE Trim(piece)[1]

\* the parsing of req.query.fields into fieldArray, as the options of the client
ParseFields(fields) ==
  IF ~Truthy(fields) THEN EmptyObj
  ELSE IF IsString(fields)
       THEN LET pieces == SplitComma(fields.v, <<>>)
            IN [fields |-> [j \in 1..Len(pieces) |-> NameOf(pieces[j])]]
  ELSE IF IsArray(fields)
       THEN [fields |-> [j \in 1..Len(fields.v) |-> NameOf(fields.v[j].v)]]
  ELSE EmptyObj

\* const { barcode: _, ...dataWithoutBarcode } = data;
\* res.json({ barcode: code, ...dataWithoutBarcode })
ProjectionBody(code, data) ==
  Json(("barcode" :> code) @@ Pick(data, (DOMAIN data) \ {"barcode"}))

\* entry of getFoodData / getRetailData up to the await of the client
Projection_Start(route, provider) ==
  /\ pc = "handler"
  /\ req.route = route
  /\ LET code == req.params.code IN
     IF ~Truthy(code)
     THEN /\ nextErr' = BadRequestError("Barcode code is required", <<>>)
          /\ pc' = "errorHandler"
          /\ UNCHANGED <<calls, inflight>>
     ELSE /\ calls' = Append(calls, Call(1, provider, code.v,
                                         ParseFields(req.query.fields)))
          /\ inflight' = inflight \cup {Flight(1, provider)}
          /\ pc' = "awaitOnly"
          /\ UNCHANGED nextErr
  /\ UNCHANGED <<req, response, tasks, settled, log, res>>
  /\ UNCHANGED otherVars

\* the client settled with r: answer 200 with its data, or next(error)
Projection_Settled(provider, r) ==
  /\ settled' = settled \cup {Outcome(1, provider, r.ok)}
  /\ inflight' = inflight \ {Flight(1, provider)}
  /\ IF r.ok
     THEN /\ res' = [status |-> 200,
                     body |-> ProjectionBody(req.params.code, r.value)]
          /\ pc' = "done"
          /\ UNCHANGED nextErr
     ELSE /\ nextErr' = r.error
          /\ pc' = "errorHandler"
          /\ UNCHANGED res
  /\ UNCHANGED <<req, response, tasks, calls, log>>
  /\ UNCHANGED otherVars

GetFoodData_Start == Projection_Start("food", "openFoodFacts")

GetFoodData_Settled ==
  /\ pc = "awaitOnly"
  /\ req.route = "food"
  /\ Flight(1, "openFoodFacts") \in inflight
  /\ LET options == ParseFields(req.query.fields) IN
     \E up \in FoodUpstream(getProductByBarcode_Params(options)) :
       Projection_Settled("openFoodFacts",
                          getProductByBarcode(req.params.code, options, up))

GetRetailData_Start == Projection_Start("retail", "upcItemDB")

GetRetailData_Settled ==
  /\ pc = "awaitOnly"
  /\ req.route = "retail"
  /\ Flight(1, "upcItemDB") \in inflight
  /\ \E up \in RetailUpstream :
       Projection_Settled("upcItemDB",
                          lookup(req.params.code,
                                 ParseFields(req.query.fields), up))

(***************************************************************************)
(* Specification of one request through the barcode routes                 *)
(***************************************************************************)
Next ==
  \/ RequireAuth
  \/ RequireEmployeeOrAdmin
  \/ VGetItemByCode
  \/ VGetBatchItems
  \/ VGetFoodData
  \/ VGetRetailData
  \/ ErrorHandler
  \/ GetItemByCode_Start
  \/ GetItemByCode_FoodSettled
  \/ GetItemByCode_RetailSettled
  \/ GetBatchItems_Start
  \/ \E i \in 1..Len(tasks) : GetBatchItems_FoodSettled(i)
  \/ \E i \in 1..Len(tasks) : GetBatchItems_RetailSettled(i)
  \/ GetBatchItems_Join
  \/ GetFoodData_Start
  \/ GetFoodData_Settled
  \/ GetRetailData_Start
  \/ GetRetailData_Settled

Spec == Init /\ [][Next]_vars

(***************************************************************************)
(* Specification of the validation stage alone, on a large set of inputs:  *)
(* the request runs through the middleware chain and stops at the handler. *)
(***************************************************************************)
\* batch lengths: the short ones and those around the cap
BatchLens ==
  (0..MaxSmallBatch) \cup ((MaxBatchItems - 1)..(MaxBatchItems + 1))

\* elements put in place of a well-formed one
OddElements ==
  {Num(5), Str(<<>>), Str(<<" ">>), Str(Digits(MinDigits - 1)),
   Str(<<"a", "b", "c", "1", "2", "3">>), Str(PaddedCode)}

\* short arrays with odd elements at two places
TwoOddBatches ==
  UNION {{Arr([[i \in 1..n |-> Str(GoodCode2)] EXCEPT ![p] = e1, ![q] = e2]) :
            p \in 1..n, q \in 1..n, e1 \in OddElements, e2 \in OddElements} :
         n \in 2..(MaxSmallBatch + 1)}

ValidatorBatches ==
  {Undefined, Null, Str(<<>>), Str(GoodCode1), Num(0), Num(7)}
  \cup {Arr([i \in 1..n |-> Str(GoodCode2)]) : n \in BatchLens}
  \cup UNION {{Arr([[i \in 1..n |-> Str(GoodCode2)] EXCEPT ![p] = e]) :
                 p \in 1..n, e \in OddElements} : n \in BatchLens}
  \cup TwoOddBatches

ValidatorRequests ==
  {Request(r, Str(c), Undefined, Undefined) :
     r \in {"item", "food", "retail"}, c \in RawCodes(MaxCodeLen, MaxPad)}
  \cup {Request("batch", Undefined, Undefined, b) : b \in ValidatorBatches}

InitV ==
  /\ req \in ValidatorRequests
  /\ pc = "requireAuth"
  /\ response = EmptyObj
  /\ tasks = <<>>
  /\ inflight = {}
  /\ calls = <<>>
  /\ settled = {}
  /\ log = <<>>
  /\ nextErr = NoError
  /\ res = NoRes
  /\ ClientUnused
  /\ PageUnused
  /\ ExtraUnused

NextV ==
  \/ RequireAuth
  \/ RequireEmployeeOrAdmin
  \/ VGetItemByCode
  \/ VGetBatchItems
  \/ VGetFoodData
  \/ VGetRetailData
  \/ ErrorHandler

SpecV == InitV /\ [][NextV]_vars

(***************************************************************************)
(* Properties                                                              *)
(***************************************************************************)
\* the validator of the request has run
Validated == pc \notin {"requireAuth", "requireRole", "validate"}

\* the validator let the request through to its handler
Accepted == Validated /\ nextErr = NoError /\ pc = "handler"

\* the validator refused the request with a BadRequestError (HTTP 400)
RejectedInvalidInput ==
  /\ Validated
  /\ nextErr.name = "BadRequestError"
  /\ nextErr.statusCode = 400
  /\ pc \in {"errorHandler", "done"}
  /\ pc = "done" => res.status = 400

\* s is whitespace, then 8 to 14 decimal digits, then whitespace
WellFormedAfterTrim(s) ==
  \E i \in 0..Len(s) : \E j \in i..Len(s) :
    /\ \A k \in 1..i : s[k] \in WhiteSpaceChars
    /\ \A k \in (j + 1)..Len(s) : s[k] \in WhiteSpaceChars
    /\ j - i >= 8
    /\ j - i <= 14
    /\ \A k \in (i + 1)..j : s[k] \in DigitChars

\* C5: single-barcode validation accepts an input string if and only if the
\* string, trimmed of surrounding whitespace, is 8 to 14 decimal digits;
\* every other input is rejected (with a BadRequestError)
C5_SingleValidationIffTrimmedDigits ==
  (Validated /\ req.route \in {"item", "food", "retail"}) =>
    /\ WellFormedAfterTrim(req.params.code.v) => Accepted
    /\ ~WellFormedAfterTrim(req.params.code.v) => RejectedInvalidInput

\* a barcode wrapped in whitespace on both sides has been accepted
C5_Witness ==
  /\ req.route = "item"
  /\ Accepted
  /\ Len(req.params.code.v) = MaxDigits + 2
  /\ Head(req.params.code.v) \in WhiteSpaceChars
  /\ req.params.code.v[Len(req.params.code.v)] \in WhiteSpaceChars

\* the array of a batch payload holds only well-formed barcode strings
AllWellFormed(a) ==
  \A i \in 1..Len(a) : a[i].t = "string" /\ WellFormedAfterTrim(a[i].v)

\* C6: batch validation rejects a non-array payload, an empty array and an
\* array of more than 100 elements as InvalidInput, and accepts an array of
\* exactly 100 well-formed barcodes
C6_BatchShapeAndCap ==
  (Validated /\ req.route = "batch") =>
    LET codes == req.body.codes IN
    /\ codes.t # "array" => RejectedInvalidInput
    /\ (codes.t = "array" /\ Len(codes.v) = 0) => RejectedInvalidInput
    /\ (codes.t = "array" /\ Len(codes.v) > 100) => RejectedInvalidInput
    /\ (codes.t = "array" /\ Len(codes.v) = 100 /\ AllWellFormed(codes.v))
         => Accepted

\* a batch of exactly 100 well-formed barcodes has been accepted
C6_Witness ==
  /\ req.route = "batch"
  /\ req.body.codes.t = "array"
  /\ Len(req.body.codes.v) = 100
  /\ AllWellFormed(req.body.codes.v)
  /\ Accepted

\* how the provider client invoked for input index idx ended (history)
Succeeded(idx, provider) == Outcome(idx, provider, TRUE) \in settled
Failed(idx, provider) == Outcome(idx, provider, FALSE) \in settled

\* the number of invocations of a provider client for input index idx
CallCount(idx, provider) ==
  Cardinality({k \in 1..Len(calls) :
                 calls[k].idx = idx /\ calls[k].provider = provider})

\* C1: the combined lookup never sends a successful response whose two
\* sources flags are both false, whatever the providers did; when both
\* providers fail the request ends with a NotFound error
C1_NeverEmptyShell ==
  req.route = "item" =>
    /\ res.status = 200 =>
         (res.body.sources.openFoodFacts \/ res.body.sources.upcItemDB)
    /\ (Failed(1, "openFoodFacts") /\ Failed(1, "upcItemDB")) =>
         /\ nextErr.name = "NotFoundError"
         /\ nextErr.statusCode = 404
         /\ res.status \in {0, 404}
         /\ pc = "done" => res.status = 404

\* both providers failed and the request was answered 404
C1_Witness ==
  /\ req.route = "item"
  /\ Failed(1, "openFoodFacts")
  /\ Failed(1, "upcItemDB")
  /\ pc = "done"
  /\ res.status = 404

\* C2: in the combined lookup, when OpenFoodFacts succeeds and UPCItemDB
\* fails (timeout included) the request succeeds with foodData present,
\* retailData absent and the retail flag false; and the same with the two
\* providers swapped
C2_PartialFailureTolerated ==
  req.route = "item" =>
    /\ (Succeeded(1, "openFoodFacts") /\ Failed(1, "upcItemDB")) =>
         /\ res.status = 200
         /\ nextErr = NoError
         /\ "foodData" \in DOMAIN res.body
         /\ "retailData" \notin DOMAIN res.body
         /\ res.body.sources = [openFoodFacts |-> TRUE, upcItemDB |-> FALSE]
    /\ (Failed(1, "openFoodFacts") /\ Succeeded(1, "upcItemDB")) =>
         /\ res.status = 200
         /\ nextErr = NoError
         /\ "retailData" \in DOMAIN res.body
         /\ "foodData" \notin DOMAIN res.body
         /\ res.body.sources = [openFoodFacts |-> FALSE, upcItemDB |-> TRUE]

\* OpenFoodFacts succeeded, UPCItemDB timed out, and the request was answered
C2_Witness ==
  /\ req.route = "item"
  /\ Succeeded(1, "openFoodFacts")
  /\ Failed(1, "upcItemDB")
  /\ \E k \in 1..Len(log) :
       /\ log[k].text = "UPCItemDB data not available for"
       /\ log[k].message.arg = <<"timeout of 10000ms exceeded">>
  /\ res.status = 200

\* the input indices of a batch for which a provider succeeded, in input order
RECURSIVE SuccessIdx(_)
SuccessIdx(n) ==
  IF n = 0 THEN <<>>
  ELSE IF Succeeded(n, "openFoodFacts") \/ Succeeded(n, "upcItemDB")
       THEN Append(SuccessIdx(n - 1), n)
       ELSE SuccessIdx(n - 1)

\* item is a combined result whose data and flags tell what happened at idx
DataMatchesOutcome(item, idx) ==
  /\ ("foodData" \in DOMAIN item) <=> Succeeded(idx, "openFoodFacts")
  /\ item.sources.openFoodFacts <=> Succeeded(idx, "openFoodFacts")
  /\ ("retailData" \in DOMAIN item) <=> Succeeded(idx, "upcItemDB")
  /\ item.sources.upcItemDB <=> Succeeded(idx, "upcItemDB")

\* C3: in every combined result sent, alone or as an item of a batch,
\* foodData is present iff the OpenFoodFacts call succeeded iff the food
\* flag is true, and the same for retailData, UPCItemDB and the retail flag
C3_DataIffSucceeded ==
  /\ (req.route = "item" /\ res.status = 200) => DataMatchesOutcome(res.body, 1)
  /\ (req.route = "batch" /\ res.status = 200) =>
       LET idx == SuccessIdx(Len(req.body.codes.v)) IN
       /\ Len(res.body.items) = Len(idx)
       /\ \A j \in 1..Len(idx) : DataMatchesOutcome(res.body.items[j], idx[j])

\* a batch was answered with an item that has foodData and no retailData
C3_Witness ==
  /\ req.route = "batch"
  /\ res.status = 200
  /\ \E j \in 1..Len(res.body.items) :
       /\ "foodData" \in DOMAIN res.body.items[j]
       /\ "retailData" \notin DOMAIN res.body.items[j]

\* the request is one that validation has to let through
ValidRequest ==
  IF req.route = "batch"
  THEN /\ req.body.codes.t = "array"
       /\ Len(req.body.codes.v) \in 1..100
       /\ AllWellFormed(req.body.codes.v)
  ELSE /\ req.params.code.t = "string"
       /\ WellFormedAfterTrim(req.params.code.v)

\* C4: on each of the four routes a request that fails validation is
\* rejected with a BadRequest error and no provider client is ever called
C4_InvalidNeverReachesProvider ==
  ~ValidRequest =>
    /\ calls = <<>>
    /\ inflight = {}
    /\ Validated => RejectedInvalidInput

\* a malformed barcode on the retail route was answered 400
C4_Witness ==
  /\ req.route = "retail"
  /\ ~ValidRequest
  /\ pc = "done"
  /\ res.status = 400
  /\ calls = <<>>

\* C7: every batch result has total = length of items and total <= requested,
\* requested being the number of barcodes of the input batch
C7_BatchCounts ==
  (req.route = "batch" /\ res.status = 200) =>
    /\ res.body.total = Len(res.body.items)
    /\ res.body.total <= res.body.requested
    /\ res.body.requested = Len(req.body.codes.v)

\* a batch was answered with fewer items than requested, but some
C7_Witness ==
  /\ req.route = "batch"
  /\ res.status = 200
  /\ res.body.total > 0
  /\ res.body.total < res.body.requested

\* C8: a barcode of the input batch appears in items iff at least one
\* provider succeeded for it; the others are absent from items and the
\* result has no other field that could report them
C8_ItemsAreTheSuccesses ==
  (req.route = "batch" /\ res.status = 200) =>
    LET codes == req.body.codes.v IN
    /\ \A i \in 1..Len(codes) :
         (\E j \in 1..Len(res.body.items) : res.body.items[j].barcode = codes[i])
           <=> (\E k \in 1..Len(codes) :
                  /\ codes[k] = codes[i]
                  /\ Succeeded(k, "openFoodFacts") \/ Succeeded(k, "upcItemDB"))
    /\ \A j \in 1..Len(res.body.items) :
         \E i \in 1..Len(codes) : res.body.items[j].barcode = codes[i]
    /\ DOMAIN res.body = {"items", "total", "requested"}

\* a batch of two different barcodes was answered with the second one only
C8_Witness ==
  /\ req.route = "batch"
  /\ res.status = 200
  /\ Len(req.body.codes.v) = 2
  /\ req.body.codes.v[1] # req.body.codes.v[2]
  /\ Failed(1, "openFoodFacts") /\ Failed(1, "upcItemDB")
  /\ Len(res.body.items) = 1
  /\ res.body.items[1].barcode = req.body.codes.v[2]

HandlerFinished == pc \in {"errorHandler", "done"}

\* C10: in a validated combined lookup each provider client is called exactly
\* once, whatever the other provider did: no call is repeated, a failure of
\* OpenFoodFacts does not prevent the UPCItemDB call, and no call is
\* abandoned before it settles
C10_EachProviderCalledOnce ==
  (req.route = "item" /\ ValidRequest) =>
    /\ CallCount(1, "openFoodFacts") <= 1
    /\ CallCount(1, "upcItemDB") <= 1
    /\ Failed(1, "openFoodFacts") => CallCount(1, "upcItemDB") = 1
    /\ HandlerFinished =>
         /\ CallCount(1, "openFoodFacts") = 1
         /\ CallCount(1, "upcItemDB") = 1
         /\ Succeeded(1, "openFoodFacts") \/ Failed(1, "openFoodFacts")
         /\ Succeeded(1, "upcItemDB") \/ Failed(1, "upcItemDB")
         /\ inflight = {}

\* OpenFoodFacts failed, UPCItemDB was still called and succeeded
C10_Witness ==
  /\ req.route = "item"
  /\ pc = "done"
  /\ Failed(1, "openFoodFacts")
  /\ Succeeded(1, "upcItemDB")
  /\ CallCount(1, "upcItemDB") = 1

(***************************************************************************)
(* Specification of the provider clients invoked on their own: a client is *)
(* called with a barcode and options, its axios.get settles, and the       *)
(* client returns or throws.  For the options of getItemByCode the step    *)
(* that copies the OpenFoodFacts result into the response follows.         *)
(***************************************************************************)
ClientOptions ==
  {EmptyObj, [fields |-> <<>>], [fields |-> ItemFoodFields],
   [fields |-> ItemRetailFields], [fields |-> <<"product_name", "quantity">>],
   [fields |-> <<"brand", "nosuchfield">>], [fields |-> <<"ean", "title">>]}

NoUp == [kind |-> "none"]
Pending == [ok |-> FALSE, value |-> EmptyObj, error |-> NoError]

InitC ==
  /\ ApiUnused
  /\ PageUnused
  /\ ExtraUnused
  /\ \E provider \in {"openFoodFacts", "upcItemDB"},
        barcode \in {Str(GoodCode1), Str(GoodCode2)},
        options \in ClientOptions :
       client = [pc |-> "called", provider |-> provider, barcode |-> barcode,
                 options |-> options, params |-> EmptyObj, up |-> NoUp,
                 result |-> Pending, copied |-> EmptyObj]

\* OpenFoodFactsService.getProductByBarcode up to its await of axios.get
GetProductByBarcode_Call ==
  /\ client.pc = "called"
  /\ client.provider = "openFoodFacts"
  /\ client' = [client EXCEPT !.pc = "awaiting",
                              !.params = getProductByBarcode_Params(client.options)]
  /\ UNCHANGED <<apiVars, pageVars, extraVars>>

\* the axios.get of getProductByBarcode settles: the client returns or throws
GetProductByBarcode_Settled ==
  /\ client.pc = "awaiting"
  /\ client.provider = "openFoodFacts"
  /\ \E up \in FoodUpstream(client.params) :
       client' = [client EXCEPT
                    !.pc = "settled", !.up = up,
                    !.result = getProductByBarcode(client.barcode,
                                                   client.options, up)]
  /\ UNCHANGED <<apiVars, pageVars, extraVars>>

\* UPCItemDBService.lookup up to its await of axios.get
Lookup_Call ==
  /\ client.pc = "called"
  /\ client.provider = "upcItemDB"
  /\ client' = [client EXCEPT !.pc = "awaiting",
                              !.params = [upc |-> client.barcode]]
  /\ UNCHANGED <<apiVars, pageVars, extraVars>>

\* the axios.get of lookup settles: the client returns or throws
Lookup_Settled ==
  /\ client.pc = "awaiting"
  /\ client.provider = "upcItemDB"
  /\ \E up \in RetailUpstream :
       client' = [client EXCEPT
                    !.pc = "settled", !.up = up,
                    !.result = lookup(client.barcode, client.options, up)]
  /\ UNCHANGED <<apiVars, pageVars, extraVars>>

\* getItemByCode after its OpenFoodFacts call returned: the copy into
\* response.foodData
GetItemByCode_CopyFood ==
  /\ client.pc = "settled"
  /\ client.provider = "openFoodFacts"
  /\ client.options = [fields |-> ItemFoodFields]
  /\ client.result.ok
  /\ client' = [client EXCEPT
                  !.pc = "copied",
                  !.copied = JsonResponse(ItemWithFood(NewResponse(client.barcode),
                                                       client.result.value))]
  /\ UNCHANGED <<apiVars, pageVars, extraVars>>

NextC ==
  \/ GetProductByBarcode_Call
  \/ GetProductByBarcode_Settled
  \/ Lookup_Call
  \/ Lookup_Settled
  \/ GetItemByCode_CopyFood

SpecC == InitC /\ [][NextC]_vars

\* the client invoked on its own has returned a value
ClientReturned == client.pc \in {"settled", "copied"} /\ client.result.ok

\* the client invoked on its own was given an explicit non-empty field list
ClientHasFieldList ==
  client.pc # "unused" /\ "fields" \in DOMAIN client.options
    /\ Len(client.options.fields) > 0

UpstreamReturnedRequested ==
  /\ client.pc = "copied"
  /\ \E p \in FoodProducts :
       /\ "product_name" \in DOMAIN p
       /\ client.up.product = Pick(p, Range(ItemFoodFields))

\* C12 as stated: when OpenFoodFacts succeeds for a product that has a product
\* name and the upstream returns exactly the fields getItemByCode requested,
\* foodData.product_name of the response is populated
C12_ProductNamePopulated ==
  UpstreamReturnedRequested => "product_name" \in DOMAIN client.copied.foodData
\* the three failure messages of lookup
RateLimitedText == "UPCItemDB API rate limit exceeded. Please try again later."
RetailNotFoundText == "Product not found in UPCItemDB"
RetailUpstreamErrorText == "UPCItemDB API error"

\* lookup invoked on its own has thrown
LookupThrew ==
  /\ client.pc = "settled"
  /\ client.provider = "upcItemDB"
  /\ ~client.result.ok

\* C13: lookup fails with the rate-limit failure exactly when the upstream
\* answers HTTP 429; HTTP 404 or an answer without items fails with the
\* not-found failure and every other failure with the generic API error, so
\* the caller can tell the three apart
C13_RateLimitedIff429 ==
  (client.pc = "settled" /\ client.provider = "upcItemDB") =>
    LET up == client.up
        text == client.result.error.message.text
        noItems == up.kind = "response" /\ (~up.hasItems \/ Len(up.items) = 0)
    IN /\ (LookupThrew /\ text = RateLimitedText)
            <=> (up.kind = "axiosError" /\ up.http = 429)
       /\ (LookupThrew /\ text = RetailNotFoundText)
            <=> (noItems \/ (up.kind = "axiosError" /\ up.http = 404))
       /\ (LookupThrew /\ text = RetailUpstreamErrorText)
            <=> (up.kind = "axiosError" /\ up.http \notin {404, 429})
       /\ LookupThrew =>
            text \in {RateLimitedText, RetailNotFoundText, RetailUpstreamErrorText}
       /\ Cardinality({RateLimitedText, RetailNotFoundText,
                       RetailUpstreamErrorText}) = 3

\* the upstream answered 429 with a message of its own and lookup threw the
\* rate-limit failure
C13_Witness ==
  /\ LookupThrew
  /\ client.up.kind = "axiosError"
  /\ client.up.http = 429
  /\ client.up.apiMessage # ""
  /\ client.result.error.message.text = RateLimitedText
\* a single-source projection ended after its provider reported no product
ProjectionNotFound ==
  /\ pc = "done"
  /\ req.route \in {"food", "retail"}
  /\ nextErr.message.text \in {"Product not found in OpenFoodFacts",
                               RetailNotFoundText}

\* C14 as stated: in getFoodData / getRetailData a provider that reports no
\* product for the barcode reaches the caller as a NotFound outcome, HTTP 404
C14_ProjectionNotFoundIs404 ==
  ProjectionNotFound => (res.status = 404 /\ res.body.error = "NotFoundError")
\* the element fails the single-barcode rule
Offending(e) == ~IsString(e) \/ ~WellFormedAfterTrim(e.v)

\* the lowest index of an offending element of the array a
FirstOffending(a) ==
  CHOOSE i \in 1..Len(a) :
    Offending(a[i]) /\ \A j \in 1..(i - 1) : ~Offending(a[j])

\* the rejection message quotes the element e
MessageNames(e) ==
  /\ nextErr.message.text = "Invalid barcode format"
  /\ IsString(e)
  /\ nextErr.message.arg = e.v

\* the batch validator has run on an array with an offending element
BatchWithOffender ==
  /\ Validated
  /\ req.route = "batch"
  /\ IsArray(req.body.codes)
  /\ \E i \in 1..Len(req.body.codes.v) : Offending(req.body.codes.v[i])

\* C15 as stated: when a batch contains elements that fail the
\* single-barcode rule, the rejection message names the first offending
\* element of the batch
C15_NamesFirstOffender ==
  BatchWithOffender =>
    MessageNames(req.body.codes.v[FirstOffending(req.body.codes.v)])

\* C15 amended: a batch of at most 100 elements with offending elements is
\* rejected for its first offending element; the message quotes that element,
\* untrimmed, when it is a string that is not blank, and is the generic text
\* naming no element when it is not a string or is blank; a longer batch is
\* rejected with the size message whatever its elements
C15_FirstOffenderDecidesMessage ==
  BatchWithOffender =>
    LET a == req.body.codes.v
        first == a[FirstOffending(a)]
    IN /\ RejectedInvalidInput
       /\ Len(a) > MaxBatchItems =>
            nextErr.message.text
              = "codes array must not contain more than 100 items"
       /\ Len(a) <= MaxBatchItems =>
            IF IsString(first) /\ Len(Trim(first.v)) > 0
            THEN MessageNames(first)
            ELSE nextErr.message
                   = Msg("All codes must be non-empty strings", <<>>)

\* two different offending strings: the message quotes the first, not the
\* second
C15_Witness ==
  /\ BatchWithOffender
  /\ Len(req.body.codes.v) = 2
  /\ Offending(req.body.codes.v[2])
  /\ IsString(req.body.codes.v[2])
  /\ MessageNames(req.body.codes.v[1])
  /\ req.body.codes.v[1] # req.body.codes.v[2]
\* one step of a request that keeps to a single outcome: a response is the
\* last thing a request does, an error passed to the error handler is never
\* replaced, and is answered by the error handler with an error response
SingleOutcomeStep ==
  /\ ~Sent
  /\ nextErr # NoError =>
       /\ nextErr' = nextErr
       /\ pc = "errorHandler"
       /\ Sent'
       /\ res'.status # 200

\* a finished request has either its successful response and no error, or
\* its error and the error response
SingleOutcomeAtEnd ==
  /\ Sent => pc = "done"
  /\ pc = "done" =>
       /\ Sent
       /\ (res.status = 200) <=> (nextErr = NoError)

\* C16: every barcode request produces exactly one outcome, a successful
\* response or an error passed to the error handler, never both and never
\* two responses, whatever the providers do
C16_ExactlyOneOutcome ==
  SingleOutcomeAtEnd /\ [][SingleOutcomeStep /\ SingleOutcomeAtEnd']_vars

\* a combined lookup whose two providers both failed ended with its one
\* error and no successful response
C16_Witness ==
  /\ pc = "done"
  /\ req.route = "item"
  /\ Failed(1, "openFoodFacts")
  /\ Failed(1, "upcItemDB")
  /\ nextErr.name = "NotFoundError"
  /\ res.status = 404
\* the lookup of barcode i of the batch has been started: its first provider
\* call has been issued
LookupStarted(i) == CallCount(i, "openFoodFacts") >= 1

\* C17: in getBatchItems the lookup of every barcode of the batch is started
\* before the lookup of any barcode has made progress: as soon as one
\* provider call has been issued or has settled, the first provider call of
\* every barcode has been issued
C17_AllStartedBeforeAnySettles ==
  (req.route = "batch" /\ (Len(calls) > 0 \/ settled # {})) =>
    \A i \in 1..Len(req.body.codes.v) : LookupStarted(i)

\* the second barcode of a batch has finished both its provider calls while
\* the first call of the first barcode is still in flight
C17_Witness ==
  /\ req.route = "batch"
  /\ pc = "awaitAll"
  /\ Len(tasks) = 2
  /\ tasks[2].pc = "returned"
  /\ tasks[1].pc = "awaitFood"
  /\ Flight(1, "openFoodFacts") \in inflight
  /\ LookupStarted(1)
\* the barcode whose lookup has index idx in the request
CodeOf(idx) ==
  IF req.route = "batch" THEN req.body.codes.v[idx].v ELSE req.params.code.v

\* the text console.log writes before the barcode for a provider
LogTextOf(provider) ==
  IF provider = "openFoodFacts" THEN "OpenFoodFacts data not available for"
  ELSE "UPCItemDB data not available for"

\* the log holds an entry for the failure of provider on barcode idx, with a
\* failure message
FailureLogged(idx, provider) ==
  \E k \in 1..Len(log) :
    /\ log[k].text = LogTextOf(provider)
    /\ log[k].code = CodeOf(idx)
    /\ log[k].message.text # ""

\* C19 as stated: every provider failure inside getItemByCode and
\* getBatchItems is recorded in a log entry carrying the failure message
\* before the aggregate result is produced
C19_EveryFailureLogged ==
  req.route \in {"item", "batch"} =>
    \A o \in settled : ~o.ok => FailureLogged(o.idx, o.provider)

(***************************************************************************)
(* NewProductPage: the barcode lookup of the new-product form.  Strings    *)
(* the page inspects are sequences of characters.                          *)
(***************************************************************************)
\* foodData?.k and retailData?.k
GetIn(resp, part, k) ==
  IF part \in DOMAIN resp THEN Get(resp[part], k) ELSE UNDEF

\* the length of the run of characters of s from position i that are in chars
RECURSIVE Run(_, _, _)
Run(s, i, chars) ==
  IF i > Len(s) \/ s[i] \notin chars THEN 0 ELSE 1 + Run(s, i + 1, chars)

RECURSIVE DigitsToInt(_)
DigitsToInt(s) ==
  IF s = <<>> THEN 0
  ELSE 10 * DigitsToInt(SubSeq(s, 1, Len(s) - 1))
       + (CHOOSE d \in 0..9 : DigitSeq[d + 1] = s[Len(s)])

RECURSIVE StripZeros(_)
StripZeros(s) ==
  IF s # <<>> /\ s[Len(s)] = "0" THEN StripZeros(SubSeq(s, 1, Len(s) - 1))
  ELSE s

\* parseFloat on a match of \d+\.?\d*: the integer part and the fraction digits
ParseFloat(g) ==
  LET n == Run(g, 1, DigitChars) IN
  Num([int |-> DigitsToInt(SubSeq(g, 1, n)),
       frac |-> StripZeros(SubSeq(g, n + 2, Len(g)))])

\* s.match(/^(\d+\.?\d*)\s*(.*)$/): the groups quantity and unit, or no match
QuantityMatch(s) ==
  LET n1 == Run(s, 1, DigitChars)
      dot == n1 + 1 <= Len(s) /\ s[n1 + 1] = "."
      n == IF dot THEN n1 + 1 + Run(s, n1 + 2, DigitChars) ELSE n1
      ws == Run(s, n + 1, WhiteSpaceChars)
      unit == SubSeq(s, n + ws + 1, Len(s))
  IN IF n1 = 0 \/ \E k \in 1..Len(unit) : unit[k] = "\n"
     THEN [matched |-> FALSE, quantity |-> <<>>, unit |-> <<>>]
     ELSE [matched |-> TRUE, quantity |-> SubSeq(s, 1, n), unit |-> unit]

\* a || b on strings and undefined
Or(a, b) == IF Truthy(a) THEN a ELSE b

\* if (barcode) patchValue({ productId: barcode, productCode: barcode })
PrefillBarcode(form, resp) ==
  IF Truthy(Get(resp, "barcode"))
  THEN [form EXCEPT !.productId = resp.barcode, !.productCode = resp.barcode]
  ELSE form

\* the product name with the retail description tried first
PrefillNameRetailFirst(form, resp) ==
  IF Truthy(GetIn(resp, "retailData", "description"))
  THEN [form EXCEPT !.productName = resp.retailData.description]
  ELSE IF Truthy(GetIn(resp, "foodData", "product_name"))
       THEN [form EXCEPT !.productName = resp.foodData.product_name]
       ELSE form

\* if (foodData?.product_name) ... else if (retailData?.description) ...
PrefillName(form, resp) ==
  IF Truthy(GetIn(resp, "foodData", "product_name"))
  THEN [form EXCEPT !.productName = resp.foodData.product_name]
  ELSE IF Truthy(GetIn(resp, "retailData", "description"))
       THEN [form EXCEPT !.productName = resp.retailData.description]
       ELSE form

\* if (retailData?.brand) patchValue({ brands: retailData.brand })
PrefillBrand(form, resp) ==
  IF Truthy(GetIn(resp, "retailData", "brand"))
  THEN [form EXCEPT !.brands = resp.retailData.brand]
  ELSE form

\* quantity and unit from foodData.product_quantity, else foodData.quantity
PrefillQuantity(form, resp) ==
  LET pq == GetIn(resp, "foodData", "product_quantity")
      q == GetIn(resp, "foodData", "quantity")
  IN IF Truthy(pq)
     THEN LET m == QuantityMatch(pq.v) IN
          IF m.matched
          THEN [form EXCEPT
                  !.quantity = ParseFloat(m.quantity),
                  !.quantityUnit =
                     Or(Str(m.unit),
                        Or(GetIn(resp, "foodData", "product_quantity_unit"),
                           Str(<<>>)))]
          ELSE [form EXCEPT !.quantityUnit = Or(pq, Str(<<>>))]
     ELSE IF Truthy(q)
          THEN LET m == QuantityMatch(q.v) IN
               IF m.matched
               THEN [form EXCEPT !.quantity = ParseFloat(m.quantity),
                                 !.quantityUnit = Or(Str(m.unit), Str(<<>>))]
               ELSE form
          ELSE form

\* if (foodData?.keywords) patchValue({ description: `Keywords: ${keywords}` })
PrefillDescription(form, resp) ==
  IF Truthy(GetIn(resp, "foodData", "keywords"))
  THEN [form EXCEPT !.description = Str(<<"Keywords: ">> \o resp.foodData.keywords.v)]
  ELSE form

\* NewProductPage.prefillFormFromBarcodeData
prefillFormFromBarcodeData(form, resp) ==
  PrefillDescription(
    PrefillQuantity(
      PrefillBrand(PrefillName(PrefillBarcode(form, resp), resp), resp), resp),
    resp)
\* foodData objects a CombinedBarcodeResponse may carry
FoodDatas ==
  {Json([product_name |-> a, product_quantity |-> b,
         product_quantity_unit |-> c, quantity |-> d, keywords |-> e]) :
     a \in {UNDEF, Str(<<>>), Str(<<"N", "u">>)},
     b \in {UNDEF, Str(<<"5", "0", "0", " ", "g">>), Str(<<"7", "5", "0">>),
            Str(<<"g">>)},
     c \in {UNDEF, Str(<<"m", "l">>)},
     d \in {UNDEF, Str(<<"1", ".", "5", "0", " ", "k", "g">>)},
     e \in {UNDEF, Str(<<"k", "w">>)}}

\* retailData objects a CombinedBarcodeResponse may carry
RetailDatas ==
  {Json([description |-> a, brand |-> b]) :
     a \in {UNDEF, Str(<<>>), Str(<<"D", "e">>)}, b \in {UNDEF, Str(<<"B">>)}}

\* the bodies of a 200 answer of GET /api/barcode/:code
CombinedResponses ==
  {("barcode" :> Str(GoodCode1))
     @@ ("sources" :> [openFoodFacts |-> TRUE, upcItemDB |-> TRUE])
     @@ ("foodData" :> f) @@ ("retailData" :> r) :
       f \in FoodDatas, r \in RetailDatas}
  \cup
  {("barcode" :> Str(GoodCode1))
     @@ ("sources" :> [openFoodFacts |-> TRUE, upcItemDB |-> FALSE])
     @@ ("foodData" :> f) : f \in FoodDatas}
  \cup
  {("barcode" :> Str(GoodCode1))
     @@ ("sources" :> [openFoodFacts |-> FALSE, upcItemDB |-> TRUE])
     @@ ("retailData" :> r) : r \in RetailDatas}

\* what the user may type into the barcode field
BarcodeInputs == {Str(<<>>), Str(<<" ">>), Str(GoodCode1), Str(PaddedCode)}

\* the state of the page after ngOnInit
InitPage ==
  /\ ApiUnused
  /\ ClientUnused
  /\ ExtraUnused
  /\ pagePc = "idle"
  /\ lookupResponse = EmptyObj
  /\ productForm = [productId |-> Str(<<>>), productCode |-> Str(<<>>),
                    productName |-> Str(<<>>), brands |-> Str(<<>>),
                    quantity |-> Null, quantityUnit |-> Str(<<>>),
                    description |-> Str(<<>>)]
  /\ signals = [barcodeInput |-> Str(<<>>), isLookingUpBarcode |-> FALSE,
                barcodeError |-> Null, barcodeSuccess |-> Null]

\* the user types into the barcode field bound to barcodeInput
SetBarcodeInput ==
  /\ pagePc = "idle"
  /\ \E v \in BarcodeInputs :
       /\ v # signals.barcodeInput
       /\ signals' = [signals EXCEPT !.barcodeInput = v]
  /\ UNCHANGED <<extraVars, apiVars, client, pagePc, lookupResponse, productForm>>

\* the user types a product name into the form before looking a barcode up
EditProductName ==
  /\ pagePc = "idle"
  /\ productForm.productName = Str(<<>>)
  /\ productForm' = [productForm EXCEPT !.productName = Str(<<"T", "y">>)]
  /\ UNCHANGED <<extraVars, apiVars, client, pagePc, lookupResponse, signals>>

\* NewProductPage.onBarcodeLookup up to the subscription
OnBarcodeLookup ==
  /\ pagePc = "idle"
  /\ IF Len(Trim(signals.barcodeInput.v)) = 0
     THEN /\ signals.barcodeError # Str(<<"Please enter a barcode">>)
          /\ signals' = [signals EXCEPT
                           !.barcodeError = Str(<<"Please enter a barcode">>)]
          /\ UNCHANGED pagePc
     ELSE /\ signals' = [signals EXCEPT !.isLookingUpBarcode = TRUE,
                                        !.barcodeError = Null,
                                        !.barcodeSuccess = Null]
          /\ pagePc' = "lookingUp"
  /\ UNCHANGED <<extraVars, apiVars, client, lookupResponse, productForm>>

\* the next callback of the subscription: the form is prefilled
LookupNext ==
  /\ pagePc = "lookingUp"
  /\ \E resp \in CombinedResponses :
       /\ lookupResponse' = resp
       /\ productForm' = prefillFormFromBarcodeData(productForm, resp)
  /\ signals' = [signals EXCEPT
                   !.isLookingUpBarcode = FALSE,
                   !.barcodeSuccess = Str(<<"Product data loaded successfully!">>)]
  /\ pagePc' = "successShown"
  /\ UNCHANGED <<extraVars, apiVars, client>>

\* the message onBarcodeLookup shows for a failed lookup
LookupErrorMessage(status) ==
  IF status = 404
  THEN "Product not found in barcode databases. You can still create it manually."
  ELSE IF status = 401 THEN "You must be logged in to lookup barcodes."
  ELSE IF status = 403 THEN "You do not have permission to lookup barcodes."
  ELSE "Failed to lookup barcode. Please try again."

\* the error callback of the subscription
LookupError ==
  /\ pagePc = "lookingUp"
  /\ \E status \in {0, 400, 401, 403, 404, 500} :
       signals' = [signals EXCEPT
                     !.isLookingUpBarcode = FALSE,
                     !.barcodeError = Str(<<LookupErrorMessage(status)>>)]
  /\ pagePc' = "idle"
  /\ UNCHANGED <<extraVars, apiVars, client, lookupResponse, productForm>>

\* setTimeout(() => barcodeSuccess.set(null), 3000); the model follows one
\* successful lookup per visit of the page
SuccessTimeout ==
  /\ pagePc = "successShown"
  /\ signals' = [signals EXCEPT !.barcodeSuccess = Null]
  /\ pagePc' = "loaded"
  /\ UNCHANGED <<extraVars, apiVars, client, lookupResponse, productForm>>

\* NewProductPage.onClearBarcode
OnClearBarcode ==
  /\ pagePc \in {"idle", "successShown", "loaded"}
  /\ signals' = [signals EXCEPT !.barcodeInput = Str(<<>>),
                                !.barcodeError = Null, !.barcodeSuccess = Null]
  /\ signals' # signals
  /\ UNCHANGED <<extraVars, apiVars, client, pagePc, lookupResponse, productForm>>

NextPage ==
  \/ SetBarcodeInput
  \/ EditProductName
  \/ OnBarcodeLookup
  \/ LookupNext
  \/ LookupError
  \/ SuccessTimeout
  \/ OnClearBarcode

SpecPage == InitPage /\ [][NextPage]_vars
\* the step that prefills the form from the response just received
PrefillStep == pagePc = "lookingUp" /\ pagePc' = "successShown"

\* the value is present in the response
Present(x) == x # UNDEF

\* the value is present in the response and is not the empty string
PresentNonEmpty(x) == IsString(x) /\ Len(x.v) > 0

\* C18 as stated: the prefilled product name is foodData.product_name when
\* it is present, otherwise retailData.description when that is present, and
\* is left unchanged when neither is present
C18_NameFromFoodWhenPresent ==
  [][PrefillStep =>
       LET name == GetIn(lookupResponse', "foodData", "product_name")
           description == GetIn(lookupResponse', "retailData", "description")
       IN productForm'.productName =
            IF Present(name) THEN name
            ELSE IF Present(description) THEN description
            ELSE productForm.productName]_vars

\* C18 amended: the prefilled product name is foodData.product_name when it
\* is present and not empty, otherwise retailData.description when that is
\* present and not empty, and is left unchanged otherwise
C18_NameFromFoodWhenNonEmpty ==
  [][PrefillStep =>
       LET name == GetIn(lookupResponse', "foodData", "product_name")
           description == GetIn(lookupResponse', "retailData", "description")
       IN productForm'.productName =
            IF PresentNonEmpty(name) THEN name
            ELSE IF PresentNonEmpty(description) THEN description
            ELSE productForm.productName]_vars

\* the response carried an empty product_name and a description: the form
\* shows the description
C18_Witness ==
  /\ pagePc = "successShown"
  /\ GetIn(lookupResponse, "foodData", "product_name") = Str(<<>>)
  /\ PresentNonEmpty(GetIn(lookupResponse, "retailData", "description"))
  /\ productForm.productName = lookupResponse.retailData.description
(***************************************************************************)
(* The barcode request under fairness: every outbound provider call        *)
(* settles (axios rejects after HttpTimeout at the latest), and the event  *)
(* loop runs every middleware, handler and continuation that is ready.     *)
(***************************************************************************)
ProviderCallsSettle ==
  /\ WF_vars(GetItemByCode_FoodSettled)
  /\ WF_vars(GetItemByCode_RetailSettled)
  /\ WF_vars(GetFoodData_Settled)
  /\ WF_vars(GetRetailData_Settled)
  /\ \A i \in 1..MaxLiveBatch :
       /\ WF_vars(i <= Len(tasks) /\ GetBatchItems_FoodSettled(i))
       /\ WF_vars(i <= Len(tasks) /\ GetBatchItems_RetailSettled(i))

HandlersRun ==
  WF_vars(\/ RequireAuth
          \/ RequireEmployeeOrAdmin
          \/ VGetItemByCode
          \/ VGetBatchItems
          \/ VGetFoodData
          \/ VGetRetailData
          \/ ErrorHandler
          \/ GetItemByCode_Start
          \/ GetBatchItems_Start
          \/ GetBatchItems_Join
          \/ GetFoodData_Start
          \/ GetRetailData_Start)

\* the requests followed under fairness
LiveRequests ==
  {Request(r, Str(c), Undefined, Undefined) :
     r \in {"item", "food", "retail"}, c \in HandlerCodes}
  \cup {Request("batch", Undefined, Undefined, b) :
          b \in {Undefined} \cup
                {Arr(a) : a \in SeqsUpTo({Str(GoodCode1), Num(5)}, MaxLiveBatch)}}

InitLive ==
  /\ req \in LiveRequests
  /\ pc = "requireAuth"
  /\ response = EmptyObj
  /\ tasks = <<>>
  /\ inflight = {}
  /\ calls = <<>>
  /\ settled = {}
  /\ log = <<>>
  /\ nextErr = NoError
  /\ res = NoRes
  /\ ClientUnused
  /\ PageUnused
  /\ ExtraUnused

SpecLive == InitLive /\ [][Next]_vars /\ ProviderCallsSettle /\ HandlersRun

\* C20: provided every outbound provider call eventually settles, every
\* request accepted by validation for getItemByCode or getBatchItems
\* eventually produces its response or its error
C20_AcceptedEventuallyAnswered ==
  (Accepted /\ req.route \in {"item", "batch"}) ~> (pc = "done" /\ Sent)

\* a combined lookup answered 200 although its OpenFoodFacts call ran into
\* the timeout: the timeout was the failure of that provider only
C20_Witness ==
  /\ pc = "done"
  /\ req.route = "item"
  /\ res.status = 200
  /\ Failed(1, "openFoodFacts")
  /\ Succeeded(1, "upcItemDB")
  /\ \E k \in 1..Len(log) :
       log[k].message = Msg("OpenFoodFacts API error",
                            <<"timeout of 10000ms exceeded">>)

(***************************************************************************)
(* Several validated barcode requests served at the same time.  Session k  *)
(* is a getItemByCode request or a getBatchItems request for one barcode;  *)
(* it keeps the local variables of its handler and, as history, the        *)
(* answers upF and upR its two axios.get received.  The steps of the       *)
(* sessions interleave as the event loop interleaves their continuations.  *)
(***************************************************************************)
\* the fields a session asks OpenFoodFacts for
SessionFoodFields(kind) == IF kind = "item" THEN ItemFoodFields ELSE BatchFoodFields

\* the fields a session asks UPCItemDB for
SessionRetailFields(kind) ==
  IF kind = "item" THEN ItemRetailFields ELSE BatchRetailFields

\* answers of the OpenFoodFacts upstream followed in the sessions: the full
\* product filtered or not, and the timeout
SessionFoodUps(params) ==
  {u \in FoodUpstream(params) :
     \/ /\ u.kind = "response" /\ u.hasProduct /\ u.status = 1
        /\ u.product \in {FoodFull, Pick(FoodFull, Range(params.fields))}
     \/ u.kind = "axiosError" /\ u.http = 0}

\* answers of the UPCItemDB upstream followed in the sessions: the full
\* product and rate limiting
SessionRetailUps ==
  {u \in RetailUpstream :
     \/ u.kind = "response" /\ u.items = <<RetailFull>>
     \/ u.kind = "axiosError" /\ u.http = 429 /\ u.apiMessage = ""}

NewSession(kind, code) ==
  [kind |-> kind, pc |-> "handler", code |-> code,
   response |-> NewResponse(code), upF |-> NoUp, upR |-> NoUp,
   nextErr |-> NoError, res |-> NoRes]

InitS ==
  /\ ApiUnused
  /\ ClientUnused
  /\ PageUnused
  /\ LookupsUnused
  /\ AuthUnused
  /\ MockUnused
  /\ \E n \in 1..MaxSessions :
       sessions \in [1..n -> {NewSession(kind, Str(code)) :
                                kind \in {"item", "batch"},
                                code \in {GoodCode1, GoodCode2}}]

SessionFrame ==
  UNCHANGED <<apiVars, client, pageVars, lookups, authState, effects,
              mockUsers, authReply>>

\* session k: from the entry of its handler to its first await
Session_Start(k) ==
  /\ sessions[k].pc = "handler"
  /\ sessions' = [sessions EXCEPT ![k].pc = "awaitFood"]
  /\ SessionFrame

\* session k storing a settled OpenFoodFacts call in the response of every
\* session, as a response object kept at module level would
Session_FoodSettledShared(k) ==
  /\ sessions[k].pc = "awaitFood"
  /\ LET me == sessions[k]
         options == [fields |-> SessionFoodFields(me.kind)]
     IN \E up \in SessionFoodUps(getProductByBarcode_Params(options)) :
          LET r == getProductByBarcode(me.code, options, up) IN
          sessions' = [j \in DOMAIN sessions |->
            [sessions[j] EXCEPT
               !.pc = IF j = k THEN "awaitRetail" ELSE @,
               !.upF = IF j = k THEN up ELSE @,
               !.response =
                  IF ~r.ok \/ sessions[j].pc \in {"done", "errorHandler"} THEN @
                  ELSE IF me.kind = "item" THEN ItemWithFood(@, r.value)
                  ELSE BatchWithFood(@, r.value)]]
  /\ SessionFrame

\* session k: its OpenFoodFacts call settles
Session_FoodSettled(k) ==
  /\ sessions[k].pc = "awaitFood"
  /\ LET me == sessions[k]
         options == [fields |-> SessionFoodFields(me.kind)]
     IN \E up \in SessionFoodUps(getProductByBarcode_Params(options)) :
          LET r == getProductByBarcode(me.code, options, up) IN
          sessions' = [sessions EXCEPT
            ![k].pc = "awaitRetail",
            ![k].upF = up,
            ![k].response =
               IF ~r.ok THEN @
               ELSE IF me.kind = "item" THEN ItemWithFood(@, r.value)
               ELSE BatchWithFood(@, r.value)]
  /\ SessionFrame

\* session k: its UPCItemDB call settles; getItemByCode answers or calls
\* next, the batch closure returns
Session_RetailSettled(k) ==
  /\ sessions[k].pc = "awaitRetail"
  /\ LET me == sessions[k]
         options == [fields |-> SessionRetailFields(me.kind)]
     IN \E up \in SessionRetailUps :
          LET r == lookup(me.code, options, up)
              resp == IF ~r.ok THEN me.response
                      ELSE IF me.kind = "item"
                           THEN ItemWithRetail(me.response, r.value)
                           ELSE BatchWithRetail(me.response, r.value)
          IN sessions' = [sessions EXCEPT
               ![k].upR = up,
               ![k].response = resp,
               ![k].pc = IF me.kind = "batch" THEN "returned"
                         ELSE IF ItemNotFound(resp) THEN "errorHandler"
                         ELSE "done",
               ![k].nextErr =
                  IF me.kind = "item" /\ ItemNotFound(resp)
                  THEN NotFoundError("Item with barcode not found in any source",
                                     me.code.v)
                  ELSE @,
               ![k].res =
                  IF me.kind = "item" /\ ~ItemNotFound(resp)
                  THEN [status |-> 200, body |-> JsonResponse(resp)]
                  ELSE @]
  /\ SessionFrame

\* session k, a batch: Promise.all has resolved, the body is sent
Session_Join(k) ==
  /\ sessions[k].pc = "returned"
  /\ LET me == sessions[k]
         ts == <<[pc |-> "returned", code |-> me.code, response |-> me.response,
                  retNull |-> ~BatchKeep(me.response)]>>
     IN sessions' = [sessions EXCEPT
          ![k].pc = "done",
          ![k].res = [status |-> 200, body |-> BatchBody(ts, <<me.code>>)]]
  /\ SessionFrame

\* session k: the error handler answers the error passed to next
Session_ErrorHandler(k) ==
  /\ sessions[k].pc = "errorHandler"
  /\ sessions' = [sessions EXCEPT
       ![k].pc = "done",
       ![k].res = [status |-> sessions[k].nextErr.statusCode,
                   body |-> [error |-> sessions[k].nextErr.name,
                             message |-> sessions[k].nextErr.message]]]
  /\ SessionFrame

NextS ==
  \/ \E k \in DOMAIN sessions : Session_Start(k)
  \/ \E k \in DOMAIN sessions : Session_FoodSettled(k)
  \/ \E k \in DOMAIN sessions : Session_RetailSettled(k)
  \/ \E k \in DOMAIN sessions : Session_Join(k)
  \/ \E k \in DOMAIN sessions : Session_ErrorHandler(k)

SpecS == InitS /\ [][NextS]_vars
\* sessions i and j are finished, for the same barcode, and their provider
\* calls received the same answers
SameOutcomes(i, j) ==
  /\ sessions[i].pc = "done"
  /\ sessions[j].pc = "done"
  /\ sessions[i].code = sessions[j].code
  /\ sessions[i].upF = sessions[j].upF
  /\ sessions[i].upR = sessions[j].upR

\* C21: for every barcode that survives in a batch result, its item is
\* identical to the response getItemByCode gives for the same barcode under
\* the same provider answers; both paths request the same fields
C21_BatchItemEqualsSingle ==
  /\ BatchFoodFields = ItemFoodFields
  /\ BatchRetailFields = ItemRetailFields
  /\ \A i \in DOMAIN sessions : \A j \in DOMAIN sessions :
       (/\ sessions[i].kind = "item"
        /\ sessions[j].kind = "batch"
        /\ SameOutcomes(i, j)
        /\ Len(sessions[j].res.body.items) > 0) =>
         /\ sessions[i].res.status = 200
         /\ sessions[j].res.body.items[1] = sessions[i].res.body

\* a getItemByCode request and a batch for the same barcode both received
\* the filtered product and a rate-limited retail call: the batch kept the
\* barcode
C21_Witness ==
  /\ Len(sessions) = 2
  /\ sessions[1].kind = "item"
  /\ sessions[2].kind = "batch"
  /\ SameOutcomes(1, 2)
  /\ sessions[1].upF.kind = "response"
  /\ "product_name" \notin DOMAIN sessions[1].upF.product
  /\ sessions[1].upR.kind = "axiosError"
  /\ sessions[2].res.body.total = 1
\* the answer getItemByCode gives for code when run alone and its two calls
\* receive upF and upR
AloneItem(code, upF, upR) ==
  LET rF == getProductByBarcode(code, [fields |-> ItemFoodFields], upF)
      rR == lookup(code, [fields |-> ItemRetailFields], upR)
      r1 == IF rF.ok THEN ItemWithFood(NewResponse(code), rF.value)
            ELSE NewResponse(code)
      r2 == IF rR.ok THEN ItemWithRetail(r1, rR.value) ELSE r1
      err == NotFoundError("Item with barcode not found in any source", code.v)
  IN IF ItemNotFound(r2)
     THEN [status |-> 404, body |-> [error |-> err.name, message |-> err.message]]
     ELSE [status |-> 200, body |-> JsonResponse(r2)]

\* the answer getBatchItems gives for the batch of code when run alone
AloneBatch(code, upF, upR) ==
  LET rF == getProductByBarcode(code, [fields |-> BatchFoodFields], upF)
      rR == lookup(code, [fields |-> BatchRetailFields], upR)
      r1 == IF rF.ok THEN BatchWithFood(NewResponse(code), rF.value)
            ELSE NewResponse(code)
      r2 == IF rR.ok THEN BatchWithRetail(r1, rR.value) ELSE r1
  IN [status |-> 200,
      body |-> [items |-> IF BatchKeep(r2) THEN <<JsonResponse(r2)>> ELSE <<>>,
                total |-> IF BatchKeep(r2) THEN 1 ELSE 0,
                requested |-> 1]]

\* C25: when several barcode requests are served at once and interleave,
\* the response of each depends only on its own barcode and the answers to
\* its own provider calls: it is the response it would get if run alone
C25_ResponseAsIfAlone ==
  \A k \in DOMAIN sessions :
    LET me == sessions[k] IN
    /\ me.pc = "done" =>
         me.res = IF me.kind = "item" THEN AloneItem(me.code, me.upF, me.upR)
                  ELSE AloneBatch(me.code, me.upF, me.upR)
    /\ me.pc \in {"handler", "awaitFood"} => me.response = NewResponse(me.code)

\* a request answered 200 with food data for its own barcode while another
\* request, for another barcode and with a failed food call, was in flight
C25_Witness ==
  /\ Len(sessions) >= 2
  /\ sessions[1].pc = "awaitRetail"
  /\ sessions[1].upF.kind = "axiosError"
  /\ sessions[2].pc = "done"
  /\ sessions[2].code # sessions[1].code
  /\ sessions[2].res.status = 200
  /\ sessions[2].upF.kind = "response"
  /\ "foodData" \notin DOMAIN sessions[1].response
\* C22: every barcode passed to a provider client by any of the four
\* barcode routes is itself 8 to 14 decimal digits with no surrounding
\* whitespace
C22_ClientsGetWellFormedBarcodes ==
  \A k \in DOMAIN calls : BarcodeRegexTest(calls[k].barcode)
(***************************************************************************)
(* Specification of the batch route alone, on batches of distinct barcodes *)
(***************************************************************************)
MaxOrderBatch == 2

\* body.codes: the first n of a run of distinct well-formed barcodes
DistinctCodes(n) == [i \in 1..n |-> Str(Digits(MinDigits + i - 1))]

BatchRequests ==
  {Request("batch", Undefined, Undefined, b) :
     b \in {Undefined} \cup {Arr(DistinctCodes(n)) : n \in 0..MaxOrderBatch}}

InitB ==
  /\ req \in BatchRequests
  /\ pc = "requireAuth"
  /\ response = EmptyObj
  /\ tasks = <<>>
  /\ inflight = {}
  /\ calls = <<>>
  /\ settled = {}
  /\ log = <<>>
  /\ nextErr = NoError
  /\ res = NoRes
  /\ ClientUnused
  /\ PageUnused
  /\ ExtraUnused

\* router.post('/batch', requireAuth, requireEmployeeOrAdmin, vGetBatchItems,
\*             BarcodeController.getBatchItems)
NextB ==
  \/ RequireAuth
  \/ RequireEmployeeOrAdmin
  \/ VGetBatchItems
  \/ ErrorHandler
  \/ GetBatchItems_Start
  \/ \E i \in 1..Len(tasks) : GetBatchItems_FoodSettled(i)
  \/ \E i \in 1..Len(tasks) : GetBatchItems_RetailSettled(i)
  \/ GetBatchItems_Join

SpecB == InitB /\ [][NextB]_vars

\* s is t with some elements left out
RECURSIVE IsSubsequence(_, _)
IsSubsequence(s, t) ==
  IF s = <<>> THEN TRUE
  ELSE IF t = <<>> THEN FALSE
  ELSE IF Head(s) = Head(t) THEN IsSubsequence(Tail(s), Tail(t))
  ELSE IsSubsequence(s, Tail(t))

BatchAnswered == pc = "done" /\ req.route = "batch" /\ calls # <<>>

\* the position in calls of the UPCItemDB call of closure i, 0 if none
RetailCallAt(i) ==
  LET at == {k \in DOMAIN calls :
               calls[k].idx = i /\ calls[k].provider = "upcItemDB"}
  IN IF at = {} THEN 0 ELSE CHOOSE k \in at : TRUE

\* C23: the items of a batch result appear in the same relative order as
\* their barcodes in the input batch, whatever order the concurrent
\* provider calls complete in
C23_ItemsInInputOrder ==
  BatchAnswered =>
    /\ res.status = 200
    /\ IsSubsequence([j \in 1..Len(res.body.items) |-> res.body.items[j].barcode],
                     req.body.codes.v)

\* both barcodes kept although the OpenFoodFacts call of the second barcode
\* settled before that of the first
C23_Witness ==
  /\ BatchAnswered
  /\ Len(res.body.items) = 2
  /\ res.body.items[1].barcode # res.body.items[2].barcode
  /\ RetailCallAt(2) > 0
  /\ RetailCallAt(2) < RetailCallAt(1)

\* C24: a validated batch request never fails because of provider failures:
\* when both providers fail for every barcode it is answered 200 with no
\* items, total 0 and requested equal to the batch size
C24_BatchNeverFailsOnProviders ==
  BatchAnswered =>
    /\ res.status = 200
    /\ res.body.requested = Len(req.body.codes.v)
    /\ (\A i \in 1..Len(tasks) :
          Failed(i, "openFoodFacts") /\ Failed(i, "upcItemDB"))
       => res.body.items = <<>> /\ res.body.total = 0

\* a batch of two barcodes for which all four provider calls failed
C24_Witness ==
  /\ BatchAnswered
  /\ Len(tasks) = 2
  /\ \A i \in 1..2 : Failed(i, "openFoodFacts") /\ Failed(i, "upcItemDB")
  /\ res.body.requested = 2
(***************************************************************************)
(* NewProductPage: barcode lookups that overlap.  onBarcodeLookup is called *)
(* by the user and by the timer onScanBarcode sets; every call subscribes   *)
(* to its own request.  lookups holds the position of onScanBarcode, the    *)
(* pending timers and the requests made so far.                             *)
(***************************************************************************)
MaxLookups == 2

ScanMessage(text) == Str(<<text>>)

\* the answer of GET /api/barcode/:code for barcode
OverlapResponse(barcode) ==
  ("barcode" :> Str(barcode))
  @@ ("sources" :> [openFoodFacts |-> TRUE, upcItemDB |-> FALSE])
  @@ ("foodData" :> Json([product_name |-> Str(<<"N", "u">>)]))

InitOverlap ==
  /\ ApiUnused
  /\ ClientUnused
  /\ SessionsUnused
  /\ AuthUnused
  /\ MockUnused
  /\ pagePc = "idle"
  /\ lookupResponse = EmptyObj
  /\ productForm = [productId |-> Str(<<>>), productCode |-> Str(<<>>),
                    productName |-> Str(<<>>), brands |-> Str(<<>>),
                    quantity |-> Null, quantityUnit |-> Str(<<>>),
                    description |-> Str(<<>>)]
  /\ signals = [barcodeInput |-> Str(<<>>), isLookingUpBarcode |-> FALSE,
                barcodeError |-> Null, barcodeSuccess |-> Null]
  /\ lookups = [scan |-> "idle", lookupTimers |-> 0, successTimers |-> 0,
                requests |-> <<>>]

OverlapFrame ==
  UNCHANGED <<apiVars, client, pagePc, sessions, authState, effects,
              mockUsers, authReply>>

\* the user types into the barcode field bound to barcodeInput
Overlap_SetBarcodeInput ==
  /\ \E v \in {Str(<<>>), Str(GoodCode1)} :
       /\ v # signals.barcodeInput
       /\ signals' = [signals EXCEPT !.barcodeInput = v]
  /\ UNCHANGED <<lookups, lookupResponse, productForm>>
  /\ OverlapFrame

\* the body of onBarcodeLookup up to the subscription, entered with the
\* timers and requests lk: a request is made for the trimmed input whatever
\* requests are in flight
onBarcodeLookup(lk) ==
  IF Len(Trim(signals.barcodeInput.v)) = 0
  THEN /\ signals' = [signals EXCEPT
                        !.barcodeError = ScanMessage("Please enter a barcode")]
       /\ lookups' = lk
  ELSE /\ signals' = [signals EXCEPT !.isLookingUpBarcode = TRUE,
                                     !.barcodeError = Null,
                                     !.barcodeSuccess = Null]
       /\ lookups' = [lk EXCEPT !.requests =
            Append(@, [barcode |-> Trim(signals.barcodeInput.v),
                       pc |-> "inFlight"])]

\* the user presses the lookup button
Overlap_OnBarcodeLookup ==
  /\ Len(lookups.requests) < MaxLookups
  /\ onBarcodeLookup(lookups)
  /\ <<signals, lookups>>' # <<signals, lookups>>
  /\ UNCHANGED <<lookupResponse, productForm>>
  /\ OverlapFrame

\* setTimeout(() => this.onBarcodeLookup(), 500) of onScanBarcode fires
Overlap_LookupTimeout ==
  /\ lookups.lookupTimers > 0
  /\ Len(lookups.requests) < MaxLookups
  /\ onBarcodeLookup([lookups EXCEPT !.lookupTimers = @ - 1])
  /\ UNCHANGED <<lookupResponse, productForm>>
  /\ OverlapFrame

\* the next callback of the subscription of request k
Overlap_LookupNext(k) ==
  /\ lookups.requests[k].pc = "inFlight"
  /\ LET resp == OverlapResponse(lookups.requests[k].barcode) IN
     /\ lookupResponse' = resp
     /\ productForm' = prefillFormFromBarcodeData(productForm, resp)
  /\ signals' = [signals EXCEPT
                   !.isLookingUpBarcode = FALSE,
                   !.barcodeSuccess = Str(<<"Product data loaded successfully!">>)]
  /\ lookups' = [lookups EXCEPT !.requests[k].pc = "next",
                                !.successTimers = @ + 1]
  /\ OverlapFrame

\* the error callback of the subscription of request k
Overlap_LookupError(k) ==
  /\ lookups.requests[k].pc = "inFlight"
  /\ \E status \in {0, 400, 401, 403, 404, 500} :
       signals' = [signals EXCEPT
                     !.isLookingUpBarcode = FALSE,
                     !.barcodeError = Str(<<LookupErrorMessage(status)>>)]
  /\ lookups' = [lookups EXCEPT !.requests[k].pc = "error"]
  /\ UNCHANGED <<lookupResponse, productForm>>
  /\ OverlapFrame

\* setTimeout(() => this.barcodeSuccess.set(null), 3000) fires
Overlap_SuccessTimeout ==
  /\ lookups.successTimers > 0
  /\ signals' = [signals EXCEPT !.barcodeSuccess = Null]
  /\ lookups' = [lookups EXCEPT !.successTimers = @ - 1]
  /\ UNCHANGED <<lookupResponse, productForm>>
  /\ OverlapFrame

\* onScanBarcode from its entry to await BarcodeScanner.checkPermissions()
OnScanBarcode_Start ==
  /\ lookups.scan = "idle"
  /\ lookups.lookupTimers + Len(lookups.requests) < MaxLookups
  /\ \E isWeb \in BOOLEAN, pluginUndefined \in BOOLEAN :
       IF isWeb
       THEN /\ signals' = [signals EXCEPT
                 !.barcodeSuccess = Null,
                 !.barcodeError = ScanMessage(
                   "Camera scanning is only available on mobile devices. Please build the app for iOS/Android or enter the barcode manually below.")]
            /\ UNCHANGED lookups
       ELSE IF pluginUndefined
       THEN /\ signals' = [signals EXCEPT
                 !.barcodeSuccess = Null,
                 !.barcodeError = ScanMessage(
                   "Camera scanner plugin not available. Please enter the barcode manually.")]
            /\ UNCHANGED lookups
       ELSE /\ signals' = [signals EXCEPT !.barcodeSuccess = Null,
                                          !.barcodeError = Null]
            /\ lookups' = [lookups EXCEPT !.scan = "checkPermissions"]
  /\ <<signals, lookups>>' # <<signals, lookups>>
  /\ UNCHANGED <<lookupResponse, productForm>>
  /\ OverlapFrame

\* the catch block of onScanBarcode
OnScanBarcode_Catch(errMessage) ==
  /\ signals' =
       IF errMessage = "cancelled" THEN signals
       ELSE IF errMessage \in {"not available", "not implemented"}
       THEN [signals EXCEPT !.barcodeError = ScanMessage(
               "Camera scanning is not available in the web browser. Please enter the barcode manually or run the app on a mobile device.")]
       ELSE [signals EXCEPT !.barcodeError = ScanMessage(
               "Failed to scan barcode. Please try again or enter manually.")]
  /\ lookups' = [lookups EXCEPT !.scan = "idle"]

ScanErrMessages == {"cancelled", "not available", "other"}

\* checkPermissions settles
OnScanBarcode_PermissionsChecked ==
  /\ lookups.scan = "checkPermissions"
  /\ \/ \E camera \in {"denied", "prompt", "granted"} :
          IF camera = "denied"
          THEN /\ signals' = [signals EXCEPT !.barcodeError = ScanMessage(
                    "Camera permission denied. Please enable camera access in your device settings or enter the barcode manually.")]
               /\ lookups' = [lookups EXCEPT !.scan = "idle"]
          ELSE /\ lookups' = [lookups EXCEPT !.scan =
                    IF camera # "granted" THEN "requestPermissions" ELSE "scan"]
               /\ UNCHANGED signals
     \/ \E m \in ScanErrMessages : OnScanBarcode_Catch(m)
  /\ UNCHANGED <<lookupResponse, productForm>>
  /\ OverlapFrame

\* requestPermissions settles
OnScanBarcode_PermissionsRequested ==
  /\ lookups.scan = "requestPermissions"
  /\ \/ \E camera \in {"denied", "granted"} :
          IF camera # "granted"
          THEN /\ signals' = [signals EXCEPT !.barcodeError = ScanMessage(
                    "Camera permission is required to scan barcodes. Please enter the barcode manually.")]
               /\ lookups' = [lookups EXCEPT !.scan = "idle"]
          ELSE /\ lookups' = [lookups EXCEPT !.scan = "scan"]
               /\ UNCHANGED signals
     \/ \E m \in ScanErrMessages : OnScanBarcode_Catch(m)
  /\ UNCHANGED <<lookupResponse, productForm>>
  /\ OverlapFrame

\* result.barcodes of BarcodeScanner.scan(): none, one without a raw value,
\* one with a raw value
ScanResults == {<<>>, <<[rawValue |-> <<>>]>>, <<[rawValue |-> GoodCode2]>>}

\* BarcodeScanner.scan() settles
OnScanBarcode_Scanned ==
  /\ lookups.scan = "scan"
  /\ \/ \E barcodes \in ScanResults :
          IF Len(barcodes) > 0
          THEN LET barcode == barcodes[1] IN
               IF Len(barcode.rawValue) > 0
               THEN /\ signals' = [signals EXCEPT
                         !.barcodeInput = Str(barcode.rawValue),
                         !.barcodeSuccess =
                            Str(<<"Barcode detected: ">> \o barcode.rawValue)]
                    /\ lookups' = [lookups EXCEPT !.scan = "idle",
                                                  !.lookupTimers = @ + 1]
               ELSE /\ signals' = [signals EXCEPT !.barcodeError = ScanMessage(
                         "No barcode value detected. Please try again.")]
                    /\ lookups' = [lookups EXCEPT !.scan = "idle"]
          ELSE /\ signals' = [signals EXCEPT !.barcodeError = ScanMessage(
                    "No barcode detected. Please try again.")]
               /\ lookups' = [lookups EXCEPT !.scan = "idle"]
     \/ \E m \in ScanErrMessages : OnScanBarcode_Catch(m)
  /\ UNCHANGED <<lookupResponse, productForm>>
  /\ OverlapFrame

NextOverlap ==
  \/ Overlap_SetBarcodeInput
  \/ Overlap_OnBarcodeLookup
  \/ Overlap_LookupTimeout
  \/ \E k \in DOMAIN lookups.requests : Overlap_LookupNext(k)
  \/ \E k \in DOMAIN lookups.requests : Overlap_LookupError(k)
  \/ Overlap_SuccessTimeout
  \/ OnScanBarcode_Start
  \/ OnScanBarcode_PermissionsChecked
  \/ OnScanBarcode_PermissionsRequested
  \/ OnScanBarcode_Scanned

SpecOverlap == InitOverlap /\ [][NextOverlap]_vars

\* C26: isLookingUpBarcode is true whenever at least one lookup request
\* started by onBarcodeLookup is still in flight, overlapping lookups
\* included
C26_FlagWhileInFlight ==
  (\E k \in DOMAIN lookups.requests : lookups.requests[k].pc = "inFlight")
    => signals.isLookingUpBarcode
(***************************************************************************)
(* The auth store: authReducer and AuthEffects.  A dispatched action is     *)
(* reduced and then seen by the effects; every HTTP request of an effect is *)
(* a step of its own.  effects holds the position of each effect and the    *)
(* type of the action reduced last.                                         *)
(***************************************************************************)
Obj(o) == [t |-> "object", isNull |-> FALSE, v |-> o]

AdminUser == Obj(("userId" :> V("1")) @@ ("role" :> V("administrateur")))
NoRoleUser == Obj("userId" :> V("2"))

\* data.user of a payload of the declared type, and of any payload
TypedUsers == {AdminUser, NoRoleUser}
AnyUsers == TypedUsers \cup {Null, Undefined, Num(0)}

Data(user) == [user |-> user]

\* res.data of a response of the declared type, and of any response
TypedDatas == {Data(u) : u \in TypedUsers}
AnyDatas == {Undefined} \cup {Data(u) : u \in AnyUsers}

ErrorTexts == {V("Login failed"), V("Invalid credentials")}

Act(type) == [type |-> type]
ActData(type, data) == [type |-> type, data |-> data]
ActError(type, error) == [type |-> type, error |-> error]

\* the actions of auth.actions.ts with data.user drawn from users
AuthActionsOver(users) ==
  {Act(t) : t \in {"getUser", "refreshToken", "refreshTokenSuccess",
                   "refreshTokenFailure", "login", "register", "logout",
                   "clearError"}}
  \cup {ActData(t, Data(u)) :
          t \in {"getUserSuccess", "loginSuccess", "registerSuccess"},
          u \in users}
  \cup {ActError(t, e) :
          t \in {"getUserFailure", "loginFailure", "registerFailure"},
          e \in ErrorTexts}

initialAuthState ==
  [isLogged |-> FALSE, role |-> V("utilisateur"), user |-> Null,
   loading |-> FALSE, error |-> Null]

\* a ?? b
Nullish(a, b) == IF a = Undefined \/ a = Null THEN b ELSE a

\* user.role: undefined on a value that has no such property
RoleOf(user) == IF user.t = "object" THEN Get(user.v, "role") ELSE Undefined

\* data.user.role throws a TypeError: data or data.user is null or undefined
SuccessThrows(data) ==
  IF data = Undefined \/ data = Null THEN TRUE
  ELSE data.user = Undefined \/ data.user = Null

\* the reducer of loginSuccess, registerSuccess and getUserSuccess with
\* logout's reset in place of the user: isLogged is set, user is cleared
SuccessStateNoUser(state, data) ==
  [state EXCEPT !.isLogged = TRUE, !.user = Null,
                !.role = Nullish(RoleOf(data.user), V("utilisateur")),
                !.loading = FALSE, !.error = Null]

\* { ...state, isLogged: true, user: data.user,
\*   role: data.user.role ?? 'utilisateur', loading: false, error: null }
SuccessState(state, data) ==
  [state EXCEPT !.isLogged = TRUE, !.user = data.user,
                !.role = Nullish(RoleOf(data.user), V("utilisateur")),
                !.loading = FALSE, !.error = Null]

\* the failure reducer flipping isLogged to false
FailureStateStrict(state, error) ==
  [state EXCEPT !.isLogged = FALSE, !.loading = FALSE, !.error = error]

\* { ...state, loading: false, error }
FailureState(state, error) ==
  [state EXCEPT !.loading = FALSE, !.error = error]

\* reducer(state, action); a reducer that throws leaves the stored state as
\* it was
authReducer(state, action) ==
  CASE action.type \in {"getUser", "login", "register"} ->
         [state EXCEPT !.loading = TRUE, !.error = Null]
    [] action.type \in {"loginSuccess", "registerSuccess"} ->
         IF SuccessThrows(action.data) THEN state
         ELSE SuccessState(state, action.data)
    [] action.type = "getUserSuccess" ->
         IF SuccessThrows(action.data) THEN state
         ELSE SuccessState(state, action.data)
    [] action.type \in {"getUserFailure", "loginFailure", "registerFailure"} ->
         FailureState(state, action.error)
    [] action.type = "refreshToken" -> [state EXCEPT !.loading = TRUE]
    [] action.type = "refreshTokenSuccess" -> [state EXCEPT !.loading = FALSE]
    [] action.type = "refreshTokenFailure" -> [state EXCEPT !.loading = FALSE]
    [] action.type = "clearError" -> [state EXCEPT !.error = Null]
    [] action.type = "logout" -> initialAuthState
    [] OTHER -> state

\* the effects react to the action: exhaustMap ignores an action while its
\* request is open, switchMap drops the open request and makes a new one
EffectsOn(eff, action) ==
  CASE action.type = "login" ->
         [eff EXCEPT !.login = IF @ = "idle" THEN "inFlight" ELSE @]
    [] action.type = "register" ->
         [eff EXCEPT !.register = IF @ = "idle" THEN "inFlight" ELSE @]
    [] action.type = "getUser" -> [eff EXCEPT !.loadUser = "inFlight"]
    [] action.type = "refreshToken" -> [eff EXCEPT !.refreshToken = "inFlight"]
    [] action.type = "logout" ->
         [eff EXCEPT !.logout = IF @ = "idle" THEN "inFlight" ELSE @]
    [] OTHER -> eff

\* store.dispatch(action) by the application or by an effect, the effects
\* being in eff
Store(eff, action, by) ==
  /\ authState' = authReducer(authState, action)
  /\ effects' = [EffectsOn(eff, action) EXCEPT !.last = action.type, !.by = by]

AuthFrame ==
  UNCHANGED <<apiVars, client, pageVars, sessions, lookups, mockUsers,
              authReply>>

InitAuth ==
  /\ ApiUnused
  /\ ClientUnused
  /\ PageUnused
  /\ SessionsUnused
  /\ LookupsUnused
  /\ MockUnused
  /\ authState = initialAuthState
  /\ effects = [login |-> "idle", register |-> "idle", loadUser |-> "idle",
                refreshToken |-> "idle", logout |-> "idle", last |-> "init", by |-> "app"]

\* an action dispatched by the application (AuthFacade or any component)
Dispatch(users) ==
  /\ \E action \in AuthActionsOver(users) : Store(effects, action, "app")
  /\ AuthFrame

\* login$: the request of api/auth/login settles
Login_Settled(datas) ==
  /\ effects.login = "inFlight"
  /\ LET eff == [effects EXCEPT !.login = "idle"] IN
     \/ \E data \in datas :
          Store(eff, ActData("loginSuccess", data), "login$")
     \/ \E e \in ErrorTexts :
          Store(eff, ActError("loginFailure", e), "login$")
  /\ AuthFrame

\* register$: the request of api/auth/register settles; registerSuccess is
\* emitted and the login request is made
Register_Settled(users) ==
  /\ effects.register = "inFlight"
  /\ \/ \E user \in users :
          Store([effects EXCEPT !.register = "autoLogin"],
                ActData("registerSuccess", Data(user)), "register$")
     \/ \E e \in ErrorTexts :
          Store([effects EXCEPT !.register = "idle"],
                ActError("registerFailure", e), "register$")
  /\ AuthFrame

\* register$: the login request made after the registration settles
Register_AutoLoginSettled(datas) ==
  /\ effects.register = "autoLogin"
  /\ LET eff == [effects EXCEPT !.register = "idle"] IN
     \/ \E data \in datas :
          Store(eff, ActData("loginSuccess", data), "register$")
     \/ \E e \in ErrorTexts :
          Store(eff, ActError("loginFailure", e), "register$")
  /\ AuthFrame

\* loadUser$: the request of api/users/me settles; res.data.user of a
\* response without data throws inside map and is caught as an error
\* without status
LoadUser_Settled(datas) ==
  /\ effects.loadUser = "inFlight"
  /\ LET eff == [effects EXCEPT !.loadUser = "idle"] IN
     \/ \E data \in datas :
          IF data = Undefined
          THEN Store(eff, ActError("getUserFailure",
                                   V("Failed to fetch user data")), "loadUser$")
          ELSE Store(eff, ActData("getUserSuccess", Data(data.user)),
                     "loadUser$")
     \/ \E status \in {0, 401, 500} :
          IF status = 401
          THEN Store(eff, Act("refreshToken"), "loadUser$")
          ELSE Store(eff, ActError("getUserFailure",
                                   V("Failed to fetch user data")), "loadUser$")
  /\ AuthFrame

\* refreshToken$ with a refresh that succeeded treated as the end of the
\* session check
RefreshToken_SettledNoRetry ==
  /\ effects.refreshToken = "inFlight"
  /\ LET eff == [effects EXCEPT !.refreshToken = "idle"] IN
     \E ok \in BOOLEAN :
       IF ok THEN Store(eff, Act("refreshTokenSuccess"), "refreshToken$")
       ELSE Store(eff, Act("refreshTokenFailure"), "refreshToken$")
  /\ AuthFrame

\* refreshToken$: the request of api/auth/refresh settles
RefreshToken_Settled ==
  /\ effects.refreshToken = "inFlight"
  /\ LET eff == [effects EXCEPT !.refreshToken = "idle"] IN
     \E ok \in BOOLEAN :
       IF ok THEN Store(eff, Act("getUser"), "refreshToken$")
       ELSE Store(eff, Act("refreshTokenFailure"), "refreshToken$")
  /\ AuthFrame

\* logout$: the request of api/auth/logout settles; nothing is dispatched
Logout_Settled ==
  /\ effects.logout = "inFlight"
  /\ effects' = [effects EXCEPT !.logout = "idle"]
  /\ UNCHANGED authState
  /\ AuthFrame

NextAuth ==
  \/ Dispatch(AnyUsers)
  \/ Login_Settled(AnyDatas)
  \/ Register_Settled(AnyUsers)
  \/ Register_AutoLoginSettled(AnyDatas)
  \/ LoadUser_Settled(AnyDatas)
  \/ RefreshToken_Settled
  \/ Logout_Settled

SpecAuth == InitAuth /\ [][NextAuth]_vars
\* the step reduces an action of type t
Reduces(t) == effects' # effects /\ effects'.last = t

\* C27: in the auth reducer, logout resets the auth state to the initial
\* state from any state, and loginFailure, registerFailure, getUserFailure
\* and refreshTokenFailure leave isLogged, user and role unchanged
C27_LogoutResetsFailuresKeep ==
  [][/\ Reduces("logout") => authState' = initialAuthState
     /\ (\E t \in {"loginFailure", "registerFailure", "getUserFailure",
                   "refreshTokenFailure"} : Reduces(t))
        => /\ authState'.isLogged = authState.isLogged
           /\ authState'.user = authState.user
           /\ authState'.role = authState.role]_vars

\* a failed refresh reduced while the administrator is logged in
C27_Witness ==
  /\ effects.last = "refreshTokenFailure"
  /\ effects.by = "refreshToken$"
  /\ authState.isLogged
  /\ authState.user = AdminUser
  /\ authState.role = V("administrateur")

\* C28: in every auth state reachable from the initial state through any
\* sequence of auth actions, isLogged = true implies that user is not null
C28_LoggedImpliesUser ==
  authState.isLogged => authState.user # Null

\* logged in by the login request that register$ makes
C28_Witness ==
  /\ authState.isLogged
  /\ authState.user = NoRoleUser
  /\ authState.role = V("utilisateur")
  /\ effects.last = "loginSuccess"
  /\ effects.by = "register$"

(***************************************************************************)
(* The auth store with responses of the declared types, every HTTP request *)
(* completing eventually                                                   *)
(***************************************************************************)
NextAuthTyped ==
  \/ Dispatch(TypedUsers)
  \/ Login_Settled(TypedDatas)
  \/ Register_Settled(TypedUsers)
  \/ Register_AutoLoginSettled(TypedDatas)
  \/ LoadUser_Settled(TypedDatas)
  \/ RefreshToken_Settled
  \/ Logout_Settled

\* HttpClient: every request completes or fails
RequestsComplete ==
  /\ WF_vars(Login_Settled(TypedDatas))
  /\ WF_vars(Register_Settled(TypedUsers))
  /\ WF_vars(Register_AutoLoginSettled(TypedDatas))
  /\ WF_vars(LoadUser_Settled(TypedDatas))
  /\ WF_vars(RefreshToken_Settled)
  /\ WF_vars(Logout_Settled)

SpecAuthLive == InitAuth /\ [][NextAuthTyped]_vars /\ RequestsComplete

\* no request of an effect is open and loading is false
AuthQuiet ==
  /\ effects.login = "idle"
  /\ effects.register = "idle"
  /\ effects.loadUser = "idle"
  /\ effects.refreshToken = "idle"
  /\ effects.logout = "idle"
  /\ ~authState.loading

\* C29: after getUser is dispatched, provided every HTTP request eventually
\* completes and the application dispatches nothing more from some point
\* on, the session check (getUser, on 401 refreshToken, on refresh success
\* getUser again) eventually stops issuing requests and loading returns to
\* false
C29_SessionCheckStops ==
  \/ []<><<Dispatch(TypedUsers)>>_vars
  \/ (effects.last = "getUser") ~> AuthQuiet
(***************************************************************************)
(* The mock AuthController: mockUsers is the Map of the stored users in    *)
(* insertion order, authReply the answer to the last call.  The handlers   *)
(* have no await: each call is one step.  The routes have no validator, so *)
(* a body field is any JSON value; an array keeps the identity it got when *)
(* its request was parsed (ref 0: not stored).                             *)
(***************************************************************************)
MaxMockUsers == 4

UnauthorizedError(text, arg) ==
  [name |-> "UnauthorizedError", custom |-> TRUE, statusCode |-> 401,
   message |-> Msg(text, arg)]

\* String(n) for n >= 0
RECURSIVE NumToString(_)
NumToString(n) ==
  IF n < 10 THEN <<DigitSeq[n + 1]>>
  ELSE NumToString(n \div 10) \o <<DigitSeq[(n % 10) + 1]>>

\* an array of a request body
BodyArr(a) == [t |-> "array", v |-> a, ref |-> 0]

\* the value as the store holds it: the array object of the request that
\* stored user number n
Held(x, n) == IF x.t = "array" THEN [x EXCEPT !.ref = n] ELSE x

\* ToBoolean, arrays included
BodyTruthy(x) == IF x.t = "array" THEN TRUE ELSE Truthy(x)

\* the two users the module stores when it is loaded (the role of the
\* second written without its accent)
SeedUsers ==
  <<[userId |-> Str(<<"1">>), username |-> V("admin"), firstName |-> V("Admin"),
     lastName |-> V("User"), email |-> V("admin@example.com"),
     password |-> V("admin123"), verified |-> TRUE,
     role |-> V("administrateur")],
    [userId |-> Str(<<"2">>), username |-> V("employee"),
     firstName |-> V("Employee"), lastName |-> V("User"),
     email |-> V("employee@example.com"), password |-> V("employee123"),
     verified |-> TRUE, role |-> V("employe")]>>

RegisterBodies ==
  [email : {Undefined, Str(<<>>), V("admin@example.com"), V("new@example.com"),
            V("admin"), Num(5), BodyArr(<<V("x@example.com")>>)},
   username : {Undefined, V("admin"), V("bob"), V("new@example.com"),
               BodyArr(<<V("bob")>>)},
   password : {Undefined, V("pw")},
   firstName : {V("F")},
   lastName : {Null, V("L")}]

LoginBodies ==
  [identifier : {Undefined, V("admin"), V("admin@example.com"), V("bob"),
                 V("nobody"), Num(5)},
   password : {Undefined, V("admin123"), V("pw")}]

InitMock ==
  /\ ApiUnused
  /\ ClientUnused
  /\ PageUnused
  /\ SessionsUnused
  /\ LookupsUnused
  /\ AuthUnused
  /\ mockUsers = SeedUsers
  /\ authReply = NoRes

MockFrame ==
  UNCHANGED <<apiVars, client, pageVars, sessions, lookups, authState, effects>>

\* next(err) and the error handler of the application
MockError(err) ==
  [status |-> err.statusCode,
   body |-> [error |-> err.name, message |-> err.message]]

\* const { password: _, ...userWithoutPassword } = user
userWithoutPassword(user) ==
  [k \in (DOMAIN user) \ {"password"} |-> user[k]]

\* the first user whose email or username is identifier, 0 if none
FoundUser(users, identifier) ==
  LET at == {i \in DOMAIN users : users[i].email = identifier
                                    \/ users[i].username = identifier}
  IN IF at = {} THEN 0 ELSE CHOOSE i \in at : \A j \in at : i <= j

\* AuthController.login
Login ==
  /\ \E body \in LoginBodies :
       LET found == FoundUser(mockUsers, body.identifier) IN
       authReply' =
         IF ~BodyTruthy(body.identifier) \/ ~BodyTruthy(body.password)
         THEN MockError(BadRequestError(
                "Email/username and password are required", <<>>))
         ELSE IF found = 0
         THEN MockError(UnauthorizedError("Invalid credentials", <<>>))
         ELSE IF mockUsers[found].password # body.password
         THEN MockError(UnauthorizedError("Invalid credentials", <<>>))
         ELSE [status |-> 200,
               body |-> [message |-> "Login successful",
                         data |-> [user |->
                                     userWithoutPassword(mockUsers[found])]]]
  /\ UNCHANGED mockUsers
  /\ MockFrame

\* mockUsers.has(email)
Has(users, email) == \E i \in DOMAIN users : users[i].email = email

\* the loop over the usernames finding no user: every username passes
UsernameTakenNever(users, username) == FALSE

\* for (const user of mockUsers.values()) if (user.username === username)
UsernameTaken(users, username) ==
  \E i \in DOMAIN users : users[i].username = username

\* the error register answers with, NoError when the user is stored
RegisterError(users, body) ==
  IF \/ ~BodyTruthy(body.email) \/ ~BodyTruthy(body.username)
     \/ ~BodyTruthy(body.password) \/ ~BodyTruthy(body.firstName)
     \/ ~BodyTruthy(body.lastName)
  THEN BadRequestError(
         "All fields are required: email, username, password, firstName, lastName",
         <<>>)
  ELSE IF Has(users, body.email)
  THEN BadRequestError("User with this email already exists", <<>>)
  ELSE IF UsernameTaken(users, body.username)
  THEN BadRequestError("Username already taken", <<>>)
  ELSE NoError

\* AuthController.register
Register ==
  /\ \E body \in RegisterBodies :
       LET err == RegisterError(mockUsers, body)
           n == Len(mockUsers) + 1
           newUser == [userId |-> Str(NumToString(n)),
                       email |-> Held(body.email, n),
                       username |-> Held(body.username, n),
                       password |-> body.password,
                       firstName |-> body.firstName,
                       lastName |-> body.lastName,
                       verified |-> FALSE,
                       role |-> V("utilisateur")]
       IN IF err # NoError
          THEN /\ authReply' = MockError(err)
               /\ UNCHANGED mockUsers
          ELSE /\ Len(mockUsers) < MaxMockUsers
               /\ mockUsers' = Append(mockUsers, newUser)
               /\ authReply' = [status |-> 201,
                                body |-> [message |-> "Registration successful",
                                          data |-> userWithoutPassword(newUser)]]
  /\ MockFrame

\* AuthController.logout
Logout ==
  /\ authReply' = [status |-> 200,
                   body |-> [message |-> "Logout successful",
                             data |-> [success |-> TRUE]]]
  /\ UNCHANGED mockUsers
  /\ MockFrame

\* AuthController.refresh
Refresh ==
  /\ authReply' = [status |-> 200,
                   body |-> [message |-> "Token refreshed",
                             data |-> [success |-> TRUE]]]
  /\ UNCHANGED mockUsers
  /\ MockFrame

NextMock ==
  \/ Login
  \/ Register
  \/ Logout
  \/ Refresh

SpecMock == InitMock /\ [][NextMock]_vars

\* the stored users differ pairwise in email, in username and in userId
StoredUsersDistinct ==
  \A i, j \in DOMAIN mockUsers :
    i # j => /\ mockUsers[i].email # mockUsers[j].email
             /\ mockUsers[i].username # mockUsers[j].username
             /\ mockUsers[i].userId # mockUsers[j].userId

====
